---- MODULE Spec2Model ----
(***************************************************************************)
(* A model of the analyzers of pipeline_cycle_time:                        *)
(*   analyzers/orchestration.py  analyze (Concord log -> phases, resumes)   *)
(*   analyzers/test_reports.py   PoolStats, TestSuiteResult                 *)
(*   analyzers/app_logs.py       analyze_webapp_logs                        *)
(*   analyzers/metrics.py        MetricsResult                              *)
(*   analyzers/correlator.py     correlate                                  *)
(* Every analyzer is a pure function of one artifact.  The artifact is     *)
(* written by the environment (one action per written entry) and the       *)
(* analyzer is one action that applies the function to what was written.   *)
(* Times are integers: orchestration timestamps and test start/stop in     *)
(* milliseconds.  The code's division by 1000.0 (ms -> s) is a positive    *)
(* scaling and is left out: every duration of the model is in ms.          *)
(***************************************************************************)
EXTENDS Integers, Sequences, FiniteSets, TLC

VARIABLES
    log,        \* orchestration.py: the lines of the log file, in file order
    orch,       \* orchestration.py: the OrchestrationResult of analyze(log)
    opc,        \* "write" while the log is being written, "done" after analyze
    wphase,     \* the Concord process that writes the log: where it is
    wclock,     \* ... the timestamp of the line it wrote last
    wstart,     \* ... the timestamp of the 'Storing policy' line of the open cycle
    wcycles,    \* ... the suspend/resume cycles it has completed
    wsum,       \* ... the sum, over them, of RUNNING minus 'Storing policy'
    timeline,   \* test_reports.py: the tests of a timeline.json, in file order
    suite,      \* test_reports.py: the TestSuiteResult of analyze_timeline
    tpc,        \* "write" while the timeline is being written, then "done"
    envelope,   \* app_logs.py: the Loki JSON of the webapp: status and entries
    applogs,    \* app_logs.py: the AppLogsResult of analyze_webapp_logs
    lpc,        \* "write" while the entries are being written, then "done"
    cin,        \* correlator.py: the six arguments of correlate
    corr,       \* correlator.py: what correlate returned, or that it raised
    cpc,        \* the argument that is chosen next, then "call", then "done"
    mfile,      \* metrics.py: the metric file <metrics_dir>/<mname>: its content
    mname,      \* metrics.py: which metric of the directory the file is
    mres,       \* metrics.py: what analyze(metrics_dir) returned, or that it raised
    mpc,        \* "write" while the file is being written, then "done"
    denvelope,  \* app_logs.py: the Loki JSON of the dispatcher: status and streams
    dtimeline,  \* app_logs.py: the DispatcherTimeline of analyze_dispatcher_logs
    dpc,        \* "write" while the streams are being written, then "done"
    orch2,      \* orchestration.py: the result of a second analyze(log)
    corr2,      \* correlator.py: what a second correlate(cin) returned
    rpc,        \* where a session that runs everything twice is
    fin,        \* s3_reports.py: the arguments of fetch_reports
    fst,        \* s3_reports.py: where fetch_reports is, and what it has found
    calls       \* s3_reports.py: the targets of the 'aws s3 ls' commands issued

ovars == <<log, orch, opc>>
wvars == <<wphase, wclock, wstart, wcycles, wsum>>
tvars == <<timeline, suite, tpc>>
lvars == <<envelope, applogs, lpc>>
cvars == <<cin, corr, cpc>>
mvars == <<mfile, mname, mres, mpc>>
dvars == <<denvelope, dtimeline, dpc>>
rvars == <<orch2, corr2, rpc>>
svars == <<fin, fst, calls>>
others == <<mvars, dvars, rvars, svars>>
vars == <<ovars, wvars, tvars, lvars, cvars, others>>

(***************************************************************************)
(* Bounds of the model.                                                    *)
(***************************************************************************)
MaxLines == 3       \* lines of a free-form orchestration log
MaxTs == 1          \* timestamps of a free-form log are 0..MaxTs
MaxGap == 1         \* time between two lines the Concord process writes
MaxCycles == 2      \* suspend/resume cycles of the Concord process
MaxTests == 2       \* tests of a timeline
MaxTime == 2        \* a test starts and stops in 0..MaxTime
MaxDur == 1         \* a test's reported duration is in 0..MaxDur
MaxEntries == 4     \* entries of a webapp log
MaxWarnings == 2    \* warnings of an AppLogsResult handed to correlate

\* Python's None for an unset timestamp (datetime objects are always truthy,
\* so "if x" on a timestamp is exactly "x is not None").
None == -1

(***************************************************************************)
(* orchestration.py: the messages of a log line.  A message is one of a    *)
(* catalogue of line kinds; Text[k] is the set of marker substrings the    *)
(* message contains (case-sensitive tests) and Lower[k] the markers its    *)
(* lower-cased text contains (the msg.lower() tests).                      *)
(***************************************************************************)
Kinds ==
    { "StoringPolicy", "ExportingRepo", "ExportTook", "AssumingRole",
      "ConnectingMica", "HelmCommand", "HelmInstallUpgrade", "StatusDeployed",
      "Suspended", "Running", "StartedChild", "Other", "NoTimestamp" }

Text(k) ==
    CASE k = "StoringPolicy"      -> {"Storing policy"}
      [] k = "ExportingRepo"      -> {"Exporting the repository data"}
      [] k = "ExportTook"         -> {"Repository data export took"}
      [] k = "AssumingRole"       -> {"Assuming role"}
      [] k = "ConnectingMica"     -> {"Connecting to"}
      [] k = "HelmCommand"        -> {}
      [] k = "HelmInstallUpgrade" -> {"Helm install/upgrade", "Helm"}
      [] k = "StatusDeployed"     -> {"STATUS"}
      [] k = "Suspended"          -> {"Process status: SUSPENDED"}
      [] k = "Running"            -> {"Process status: RUNNING"}
      [] k = "StartedChild"       -> {"Started a process"}
      [] k = "NoTimestamp"        -> {"Process status: SUSPENDED", "Storing policy"}
      [] OTHER                    -> {}

Lower(k) ==
    CASE k = "ConnectingMica"     -> {"mica"}
      [] k = "HelmCommand"        -> {"helm", "upgrade", "install"}
      [] k = "HelmInstallUpgrade" -> {"helm", "upgrade", "install"}
      [] k = "StatusDeployed"     -> {"deployed"}
      [] OTHER                    -> {}

(***************************************************************************)
(* orchestration.py: a parsed line (ts, level, msg).  The level is never   *)
(* read.  arg is the <N> of 'Repository data export took <N>ms' or the     *)
(* instance id of 'Started a process', and 0 for every other message.      *)
(***************************************************************************)
ExportMs == {1}
ChildIds == {1, 2}

Messages ==
    [kind : Kinds \ {"ExportTook", "StartedChild"}, arg : {0}]
    \cup [kind : {"ExportTook"}, arg : ExportMs]
    \cup [kind : {"StartedChild"}, arg : ChildIds]

Line(ts, msg) == [ts |-> ts, kind |-> msg.kind, arg |-> msg.arg]

\* A filter that keeps every line of the file.
MatchesAny(l) == TRUE

\* TIMESTAMP_RE.match(line.strip()): the line starts with a timestamp and a
\* level.  A "NoTimestamp" line is a continuation line (text that mentions
\* 'Storing policy' and 'Process status: SUSPENDED' with no timestamp before it).
Matches(l) == l.kind # "NoTimestamp"

\* The lines left in the order of the file.
SortByTsNever(lines) == lines

\* timestamps.sort(key=lambda x: x[0]): Python's sort is stable, so lines with
\* the same timestamp keep their file order.
RECURSIVE InsertByTs(_, _)
InsertByTs(sorted, l) ==
    IF sorted = <<>> THEN <<l>>
    ELSE IF sorted[Len(sorted)].ts <= l.ts THEN Append(sorted, l)
    ELSE Append(InsertByTs(SubSeq(sorted, 1, Len(sorted) - 1), l), sorted[Len(sorted)])

RECURSIVE SortByTs(_)
SortByTs(lines) ==
    IF lines = <<>> THEN <<>>
    ELSE InsertByTs(SortByTs(SubSeq(lines, 1, Len(lines) - 1)), lines[Len(lines)])

\* A child list that keeps the first mention of each instance id only.
RECURSIVE ChildrenDistinct(_)
ChildrenDistinct(ts) ==
    IF ts = <<>> THEN <<>>
    ELSE LET rest == ChildrenDistinct(SubSeq(ts, 1, Len(ts) - 1))
             l == ts[Len(ts)]
         IN  IF "Started a process" \in Text(l.kind)
                /\ \A i \in 1..Len(rest) : rest[i] # l.arg
             THEN Append(rest, l.arg) ELSE rest

\* child_re over the sorted lines: one entry per matching line.
RECURSIVE Children(_)
Children(ts) ==
    IF ts = <<>> THEN <<>>
    ELSE LET rest == Children(SubSeq(ts, 1, Len(ts) - 1))
             l == ts[Len(ts)]
         IN  IF "Started a process" \in Text(l.kind) THEN Append(rest, l.arg) ELSE rest

(***************************************************************************)
(* orchestration.py: the suspend/resume loop, one line at a time.          *)
(***************************************************************************)
ResumeInit ==
    [ seen_first_running |-> FALSE, in_resume |-> FALSE,
      current_resume_start |-> None, current_export_duration |-> 0,
      suspend_times |-> <<>>, resume_overheads |-> <<>> ]

ResumeOverhead(resume_time, repo_export, dep_resolution) ==
    [resume_time |-> resume_time, repo_export_s |-> repo_export,
     dep_resolution_s |-> dep_resolution]

\* dep_resolution_s = total_overhead - current_export_duration
DepResolution(total_overhead, export_duration) == total_overhead - export_duration

\* The sentinel test without its 'continue': the first RUNNING line is handled
\* like every other line.
IsSentinelNever(st, l) == FALSE

\* if not seen_first_running and resume_running_re.search(msg): ...; continue
IsSentinel(st, l) ==
    ~st.seen_first_running /\ "Process status: RUNNING" \in Text(l.kind)

\* A SUSPENDED branch that records the time and leaves the window as it is.
OnSuspendedKeepWindow(st, l) == [st EXCEPT !.suspend_times = Append(@, l.ts)]

\* if suspend_re.search(msg): result.suspend_times.append(ts); in_resume = False
OnSuspended(st, l) ==
    [st EXCEPT !.suspend_times = Append(@, l.ts), !.in_resume = FALSE]

\* A window test that does not wait for the first RUNNING line.
OpensWindowAnytime(st, l) == "Storing policy" \in Text(l.kind) /\ ~st.in_resume

\* elif seen_first_running and "Storing policy" in msg and not in_resume
OpensWindow(st, l) ==
    st.seen_first_running /\ "Storing policy" \in Text(l.kind) /\ ~st.in_resume

\* A window that opens with the export duration left as it was.
OnOpenKeepExport(st, l) ==
    [st EXCEPT !.in_resume = TRUE, !.current_resume_start = l.ts]

\* in_resume = True; current_resume_start = ts; current_export_duration = 0.0
OnOpen(st, l) ==
    [st EXCEPT !.in_resume = TRUE, !.current_resume_start = l.ts,
               !.current_export_duration = 0]

ResumeStep(st, l) ==
    IF IsSentinel(st, l)
    THEN [st EXCEPT !.seen_first_running = TRUE]
    ELSE IF "Process status: SUSPENDED" \in Text(l.kind)
    THEN OnSuspended(st, l)
    ELSE IF OpensWindow(st, l)
    THEN OnOpen(st, l)
    ELSE IF st.in_resume
    THEN IF "Repository data export took" \in Text(l.kind)
         THEN [st EXCEPT !.current_export_duration = l.arg]
         ELSE IF "Process status: RUNNING" \in Text(l.kind)
         THEN [st EXCEPT
                 !.resume_overheads =
                     Append(@, ResumeOverhead(st.current_resume_start,
                                   st.current_export_duration,
                                   DepResolution(l.ts - st.current_resume_start,
                                                 st.current_export_duration))),
                 !.in_resume = FALSE,
                 !.current_export_duration = 0]
         ELSE st
    ELSE st

RECURSIVE ResumeLoop(_)
ResumeLoop(ts) ==
    IF ts = <<>> THEN ResumeInit
    ELSE ResumeStep(ResumeLoop(SubSeq(ts, 1, Len(ts) - 1)), ts[Len(ts)])

(***************************************************************************)
(* orchestration.py: the phase boundaries.                                 *)
(***************************************************************************)
\* The timestamp of the first line of ts among hits (the positions of the
\* lines that pass a test), or None: a boundary that
\* is assigned only while it is None.
FirstTs(ts, hits) ==
    IF hits = {} THEN None
    ELSE ts[CHOOSE i \in hits : \A j \in hits : i <= j].ts

\* The timestamp of the last line of ts among hits, or None: a boundary that
\* is assigned on every matching line.
LastTs(ts, hits) ==
    IF hits = {} THEN None
    ELSE ts[CHOOSE i \in hits : \A j \in hits : i >= j].ts

IsStoringPolicy(l) == "Storing policy" \in Text(l.kind)
IsExporting(l) == "Exporting the repository data" \in Text(l.kind)
IsAssumingRole(l) == "Assuming role" \in Text(l.kind)
IsMica(l) == "Connecting to" \in Text(l.kind) /\ "mica" \in Lower(l.kind)
IsHelmEnd(l) ==
    \/ "Helm install/upgrade" \in Text(l.kind)
    \/ ("deployed" \in Lower(l.kind) /\ "STATUS" \in Text(l.kind))
IsSuspended(l) == "Process status: SUSPENDED" \in Text(l.kind)
IsHelm(l) == "helm" \in Lower(l.kind) \/ "Helm" \in Text(l.kind)

\* helm_end is assigned on every matching line: the last one wins.
HelmEnd(ts) == LastTs(ts, {i \in 1..Len(ts) : IsHelmEnd(ts[i])})

\* The first line after mica_start (ts > mica_start) that mentions helm.
HelmStart(ts, mica_start) ==
    LET After(l) == mica_start # None /\ l.ts > mica_start /\ IsHelm(l)
    IN  FirstTs(ts, {i \in 1..Len(ts) : After(ts[i])})

Phase(name, start, end) == [name |-> name, start |-> start, end |-> end]

BuildPhases(ts, total_end) ==
    LET init_start == FirstTs(ts, {i \in 1..Len(ts) : IsStoringPolicy(ts[i])})
        bootstrap_start == FirstTs(ts, {i \in 1..Len(ts) : IsExporting(ts[i])})
        aws_start == FirstTs(ts, {i \in 1..Len(ts) : IsAssumingRole(ts[i])})
        mica_start == FirstTs(ts, {i \in 1..Len(ts) : IsMica(ts[i])})
        helm_end == HelmEnd(ts)
        first_suspend == FirstTs(ts, {i \in 1..Len(ts) : IsSuspended(ts[i])})
        helm_start == HelmStart(ts, mica_start)
        helm_s == IF helm_start # None THEN helm_start ELSE mica_start
    IN  (IF init_start # None /\ bootstrap_start # None
         THEN <<Phase("Init", init_start, bootstrap_start)>> ELSE <<>>)
        \o (IF bootstrap_start # None /\ aws_start # None
            THEN <<Phase("Bootstrap", bootstrap_start, aws_start)>> ELSE <<>>)
        \o (IF aws_start # None /\ mica_start # None
            THEN <<Phase("AWS", aws_start, mica_start)>> ELSE <<>>)
        \o (IF mica_start # None /\ helm_s # mica_start
            THEN <<Phase("Config/Mica", mica_start, helm_s)>> ELSE <<>>)
        \o (IF helm_end # None /\ first_suspend # None /\ helm_start # None
            THEN <<Phase("Helm", helm_start, helm_end)>> ELSE <<>>)
        \o (IF first_suspend # None /\ total_end # None
            THEN <<Phase("Suspended", first_suspend, total_end)>> ELSE <<>>)

(***************************************************************************)
(* orchestration.py: OrchestrationResult and analyze.                      *)
(***************************************************************************)
OrchestrationResult ==
    [ phases |-> <<>>, children |-> <<>>, suspend_times |-> <<>>,
      resume_overheads |-> <<>>, total_start |-> None, total_end |-> None ]

analyze(lines) ==
    LET matched == SelectSeq(lines, Matches)
        timestamps == SortByTs(matched)
        total_end == timestamps[Len(timestamps)].ts
        r == ResumeLoop(timestamps)
    IN  IF matched = <<>> THEN OrchestrationResult
        ELSE [ phases |-> BuildPhases(timestamps, total_end),
               children |-> Children(timestamps),
               suspend_times |-> r.suspend_times,
               resume_overheads |-> r.resume_overheads,
               total_start |-> timestamps[1].ts,
               total_end |-> total_end ]

total_s(r) == r.repo_export_s + r.dep_resolution_s

RECURSIVE SumTotal(_)
SumTotal(rs) ==
    IF rs = <<>> THEN 0 ELSE SumTotal(Tail(rs)) + total_s(Head(rs))

total_resume_overhead_s(res) == SumTotal(res.resume_overheads)
resume_count(res) == Len(res.resume_overheads)
duration_s(p) == p.end - p.start

RECURSIVE SumDurations(_)
SumDurations(ps) ==
    IF ps = <<>> THEN 0 ELSE duration_s(Head(ps)) + SumDurations(Tail(ps))

total_duration_s(res) ==
    IF res.total_start # None /\ res.total_end # None
    THEN res.total_end - res.total_start ELSE 0
active_duration_s(res) ==
    SumDurations(SelectSeq(res.phases, LAMBDA p : p.name # "Suspended"))
suspended_duration_s(res) ==
    SumDurations(SelectSeq(res.phases, LAMBDA p : p.name = "Suspended"))

\* OrchestrationResult.idle_pct, as the fraction <<n, d>>
result_idle_pct(res) ==
    LET total == total_duration_s(res)
    IN  IF total = 0 THEN <<0, 1>> ELSE <<suspended_duration_s(res) * 100, total>>

(***************************************************************************)
(* test_reports.py: TestInfo, PoolStats, TestSuiteResult.                  *)
(* A timeline entry is one test under one worker: [worker, start, stop,    *)
(* duration, status].  The timeline is the sequence of the entries in the  *)
(* order the nested loops of analyze_timeline visit them.                  *)
(***************************************************************************)
Workers == {"3423@host.ForkJoinPool-1-worker-7", "3423@host.ForkJoinPool-2-worker-3",
            "pid-20-worker-8"}

\* _extract_pool: 'Pool-<n>' for a name with 'ForkJoinPool-<n>-', else 'default'.
extract_pool(worker_name) ==
    CASE worker_name = "3423@host.ForkJoinPool-1-worker-7" -> "Pool-1"
      [] worker_name = "3423@host.ForkJoinPool-2-worker-3" -> "Pool-2"
      [] OTHER -> "default"

TestInfo(e) ==
    [ worker |-> e.worker, pool |-> extract_pool(e.worker), status |-> e.status,
      start |-> e.start, stop |-> e.stop, duration |-> e.duration ]

\* min(t.start for t in tests) and max(t.stop for t in tests), tests not empty
MinStart(tests) ==
    CHOOSE m \in {tests[i].start : i \in 1..Len(tests)} :
        \A i \in 1..Len(tests) : m <= tests[i].start

MaxStop(tests) ==
    CHOOSE m \in {tests[i].stop : i \in 1..Len(tests)} :
        \A i \in 1..Len(tests) : m >= tests[i].stop

RECURSIVE SumDuration(_)
SumDuration(tests) ==
    IF tests = <<>> THEN 0 ELSE Head(tests).duration + SumDuration(Tail(tests))

\* PoolStats and TestSuiteResult share these three definitions.
wall_clock_s(tests) ==
    IF tests = <<>> THEN 0 ELSE MaxStop(tests) - MinStart(tests)
aggregate_s(tests) == SumDuration(tests)
start_ms(p) == IF p.tests = <<>> THEN 0 ELSE MinStart(p.tests)
stop_ms(p) == IF p.tests = <<>> THEN 0 ELSE MaxStop(p.tests)

\* The ratio upside down: wall-clock over aggregate.
parallelismInverted(p) ==
    LET wc == wall_clock_s(p.tests)
    IN  IF wc = 0 THEN <<0, 1>> ELSE <<wc, aggregate_s(p.tests)>>

\* PoolStats.parallelism: aggregate_s / wall_clock_s as the fraction <<n, d>>,
\* and 0.0, written <<0, 1>>, when the wall-clock is 0.
parallelism(p) ==
    LET wc == wall_clock_s(p.tests)
    IN  IF wc = 0 THEN <<0, 1>> ELSE <<aggregate_s(p.tests), wc>>

\* result.pools: a dict, kept as the sequence of its PoolStats in insertion order.
PoolIndex(pools, name) ==
    IF \E i \in 1..Len(pools) : pools[i].name = name
    THEN CHOOSE i \in 1..Len(pools) : pools[i].name = name
    ELSE 0

\* Every test after the first goes to the pool that was created first.
AddToFirstPool(pools, info) ==
    IF pools = <<>> THEN <<[name |-> info.pool, tests |-> <<info>>]>>
    ELSE [pools EXCEPT ![1].tests = Append(@, info)]

\* if pool not in result.pools: ...; result.pools[pool].tests.append(info)
AddToPools(pools, info) ==
    LET i == PoolIndex(pools, info.pool)
    IN  IF i = 0 THEN Append(pools, [name |-> info.pool, tests |-> <<info>>])
        ELSE [pools EXCEPT ![i].tests = Append(@, info)]

TestSuiteResult == [tests |-> <<>>, pools |-> <<>>]

RECURSIVE analyze_timeline(_)
analyze_timeline(entries) ==
    IF entries = <<>> THEN TestSuiteResult
    ELSE LET r == analyze_timeline(SubSeq(entries, 1, Len(entries) - 1))
             info == TestInfo(entries[Len(entries)])
         IN  [tests |-> Append(r.tests, info), pools |-> AddToPools(r.pools, info)]

\* sorted(self.pools.values(), key=lambda p: p.start_ms): a stable sort.
RECURSIVE InsertByStart(_, _)
InsertByStart(sorted, p) ==
    IF sorted = <<>> THEN <<p>>
    ELSE IF start_ms(sorted[Len(sorted)]) <= start_ms(p) THEN Append(sorted, p)
    ELSE Append(InsertByStart(SubSeq(sorted, 1, Len(sorted) - 1), p),
                sorted[Len(sorted)])

RECURSIVE SortedPools(_)
SortedPools(pools) ==
    IF pools = <<>> THEN <<>>
    ELSE InsertByStart(SortedPools(SubSeq(pools, 1, Len(pools) - 1)), pools[Len(pools)])

\* The loop adding the wall-clock of prev, the earlier pool, instead of curr.
RECURSIVE WasteLoopPrev(_, _)
WasteLoopPrev(sorted_pools, i) ==
    IF i > Len(sorted_pools) THEN 0
    ELSE wall_clock_s(sorted_pools[i - 1].tests) + WasteLoopPrev(sorted_pools, i + 1)

\* The loop of sequential_pool_waste_s over sorted_pools[1:]: the test
\* curr.start_ms > prev.stop_ms has an empty body, so every later pool counts.
RECURSIVE WasteLoop(_, _)
WasteLoop(sorted_pools, i) ==
    IF i > Len(sorted_pools) THEN 0
    ELSE wall_clock_s(sorted_pools[i].tests) + WasteLoop(sorted_pools, i + 1)

sequential_pool_waste_s(s) ==
    IF Len(s.pools) < 2 THEN 0 ELSE WasteLoop(SortedPools(s.pools), 2)

\* The setup test with <= for <: a test that starts at the cutoff is in both groups.
InSetupInclusive(t, cutoff) == t.start <= cutoff

\* t.start < cutoff, with cutoff = all_start + threshold_s * 1000
InSetup(t, cutoff) == t.start < cutoff

WorkersOf(tests) == {tests[i].worker : i \in 1..Len(tests)}

\* setup_phase_analysis(threshold_s); threshold is threshold_s * 1000.
setup_phase_analysis(s, threshold) ==
    IF s.tests = <<>> THEN [empty |-> TRUE]
    ELSE LET cutoff == MinStart(s.tests) + threshold
             setup_tests == SelectSeq(s.tests, LAMBDA t : InSetup(t, cutoff))
             main_tests == SelectSeq(s.tests, LAMBDA t : t.start >= cutoff)
             all_workers == WorkersOf(s.tests)
             setup_workers == WorkersOf(setup_tests)
         IN  [ empty |-> FALSE,
               setup_tests |-> Len(setup_tests),
               main_tests |-> Len(main_tests),
               setup_duration_s |-> threshold,
               all_workers |-> Cardinality(all_workers),
               setup_workers |-> Cardinality(setup_workers),
               idle_workers |-> Cardinality(all_workers \ setup_workers) ]

total_tests(s) == Len(s.tests)
pass_count(s) == Len(SelectSeq(s.tests, LAMBDA t : t.status = "passed"))
fail_count(s) == Len(SelectSeq(s.tests, LAMBDA t : t.status = "failed"))
skip_count(s) == Len(SelectSeq(s.tests, LAMBDA t : t.status = "skipped"))
pool_count(p) == Len(p.tests)

\* (idle / wall * 100) with no test of wall: the division as it stands.
idle_pctUnguarded(idle, wall) == <<idle * 100, wall>>

\* (idle / wall * 100) if wall > 0 else 0, as the fraction <<n, d>>
idle_pct(idle, wall) == IF wall > 0 THEN <<idle * 100, wall>> ELSE <<0, 1>>

\* PoolStats.worker_stats(): per worker of the pool, over the worker's tests
worker_stats(p) ==
    [ w \in WorkersOf(p.tests) |->
        LET tests == SelectSeq(p.tests, LAMBDA t : t.worker = w)
            wall == MaxStop(tests) - MinStart(tests)
            agg == SumDuration(tests)
            idle == IF wall > agg THEN wall - agg ELSE 0
        IN  [ tests |-> Len(tests), wall_ms |-> wall, aggregate_ms |-> agg,
              idle_ms |-> idle, idle_pct |-> idle_pct(idle, wall) ] ]
failed_tests(s) == SelectSeq(s.tests, LAMBDA t : t.status = "failed")

(***************************************************************************)
(* app_logs.py: analyze_webapp_logs.  A log line is one of a catalogue;    *)
(* its fields are the outcomes of the substring tests the code makes:      *)
(*   warn "WARN" in line, effect "EffectConsumer" in line, error "ERROR"   *)
(*   in line, dialect / missing / valid the lower-cased keyword tests, and *)
(*   secs the first match of (\d+\.\d+)s: its text and its value in        *)
(*   hundredths of a second (text "" when nothing matches).                *)
(***************************************************************************)
NoSecs == [text |-> "", value |-> 0]

WebLine(warn, effect, secs, dialect, missing, error, valid) ==
    [ warn |-> warn, effect |-> effect, secs |-> secs, dialect |-> dialect,
      missing |-> missing, error |-> error, valid |-> valid ]

WebLines ==
    { \* WARN EffectConsumer ... blocked the queue for 1.5s
      WebLine(TRUE, TRUE, [text |-> "1.5s", value |-> 150], FALSE, FALSE, FALSE, FALSE),
      \* WARN EffectConsumer ... blocked the queue for 12.25s
      WebLine(TRUE, TRUE, [text |-> "12.25s", value |-> 1225], FALSE, FALSE, FALSE, FALSE),
      \* WARN EffectConsumer ... blocked the queue for 1.50s
      WebLine(TRUE, TRUE, [text |-> "1.50s", value |-> 150], FALSE, FALSE, FALSE, FALSE),
      \* WARN EffectConsumer ... (no duration)
      WebLine(TRUE, TRUE, NoSecs, FALSE, FALSE, FALSE, FALSE),
      \* INFO EffectConsumer ... took 9.9s
      WebLine(FALSE, TRUE, [text |-> "9.9s", value |-> 990], FALSE, FALSE, FALSE, FALSE),
      \* WARN ... MariaDB dialect ...
      WebLine(TRUE, FALSE, NoSecs, TRUE, FALSE, FALSE, FALSE),
      \* WARN ... missing dataset attribute ...
      WebLine(TRUE, FALSE, NoSecs, FALSE, TRUE, FALSE, FALSE),
      \* ERROR ... validation failed
      WebLine(FALSE, FALSE, NoSecs, FALSE, FALSE, TRUE, TRUE) }

LogWarning(category, count, worst_case) ==
    [category |-> category, count |-> count, worst_case |-> worst_case]

AppLogsResult ==
    [ warnings |-> <<>>, error_count |-> 0, validation_error_count |-> 0,
      total_log_entries |-> 0 ]

CountInit ==
    [ effect_consumer_count |-> 0, effect_consumer_worst |-> NoSecs,
      hibernate_dialect |-> 0, missing_dataset_attrs |-> 0,
      error_count |-> 0, validation_errors |-> 0 ]

\* The count without the "WARN" test: every EffectConsumer line counts.
CountEffectAnyLevel(n, line) == IF line.effect THEN n + 1 ELSE n

\* effect_consumer_count += 1, on a line with "WARN" and "EffectConsumer"
CountEffect(n, line) == IF line.warn /\ line.effect THEN n + 1 ELSE n

\* A worst case that is the duration seen last.
WorstCaseLatest(worst, line) ==
    IF line.warn /\ line.effect /\ line.secs.text # "" THEN line.secs ELSE worst

\* the worst case: the first duration seen, then any strictly larger one
WorstCase(worst, line) ==
    IF line.warn /\ line.effect /\ line.secs.text # ""
       /\ (worst.text = "" \/ line.secs.value > worst.value)
    THEN line.secs ELSE worst

CountStep(c, line) ==
    [ effect_consumer_count |-> CountEffect(c.effect_consumer_count, line),
      effect_consumer_worst |-> WorstCase(c.effect_consumer_worst, line),
      hibernate_dialect |->
          IF line.warn /\ line.dialect THEN c.hibernate_dialect + 1
          ELSE c.hibernate_dialect,
      missing_dataset_attrs |->
          IF line.warn /\ line.missing THEN c.missing_dataset_attrs + 1
          ELSE c.missing_dataset_attrs,
      error_count |-> IF line.error THEN c.error_count + 1 ELSE c.error_count,
      validation_errors |->
          IF line.error /\ line.valid THEN c.validation_errors + 1
          ELSE c.validation_errors ]

RECURSIVE CountLoop(_)
CountLoop(entries) ==
    IF entries = <<>> THEN CountInit
    ELSE CountStep(CountLoop(SubSeq(entries, 1, Len(entries) - 1)),
                   entries[Len(entries)])

\* the three 'if <count> > 0: result.warnings.append(...)' in their order
EmitWarnings(c) ==
    (IF c.effect_consumer_count > 0
     THEN <<LogWarning("EffectConsumer queue blocking", c.effect_consumer_count,
                       c.effect_consumer_worst.text)>>
     ELSE <<>>)
    \o (IF c.hibernate_dialect > 0
        THEN <<LogWarning("Hibernate dialect mismatch", c.hibernate_dialect, "")>>
        ELSE <<>>)
    \o (IF c.missing_dataset_attrs > 0
        THEN <<LogWarning("Missing dataset attribute mappings",
                          c.missing_dataset_attrs, "")>>
        ELSE <<>>)

\* A status test that every envelope passes.
IsSuccessAlways(data) == TRUE

\* data.get("status") != "success": return the empty result
IsSuccess(data) == data.status = "success"

analyze_webapp_logs(data) ==
    IF ~IsSuccess(data) THEN AppLogsResult
    ELSE LET c == CountLoop(data.entries)
         IN  [ warnings |-> EmitWarnings(c),
               error_count |-> c.error_count,
               validation_error_count |-> c.validation_errors,
               total_log_entries |-> Len(data.entries) ]

\* Tests longer than 16000 ms count as polling-dominated.
PollingThresholdMs == 16000

\* polling_analysis(); polling_pct is kept as its two terms.
polling_analysis(s) ==
    IF s.tests = <<>> THEN [empty |-> TRUE]
    ELSE LET polling_tests ==
                 SelectSeq(s.tests, LAMBDA t : t.duration > PollingThresholdMs)
         IN  [ empty |-> FALSE,
               aggregate_ms |-> SumDuration(s.tests),
               polling_test_count |-> Len(polling_tests),
               polling_aggregate |-> SumDuration(polling_tests) ]

\* polling_pct > 50, polling_pct = polling_aggregate / aggregate_ms * 100, and 0
\* when aggregate_ms is not positive
PollingPctOver50(polling) ==
    /\ polling.aggregate_ms > 0
    /\ 100 * polling.polling_aggregate > 50 * polling.aggregate_ms

(***************************************************************************)
(* metrics.py: MetricSummary and MetricsResult.  A summary that is None is *)
(* NoSummary.  Metric values are integers: CPU in tenths of a core, the    *)
(* others in their unit.                                                   *)
(***************************************************************************)
NoSummary == [exists |-> FALSE]

MetricSummary(min_val, max_val, avg_val) ==
    [exists |-> TRUE, min_val |-> min_val, max_val |-> max_val, avg_val |-> avg_val]

MetricsResult ==
    [ cpu |-> NoSummary, memory |-> NoSummary, hikaricp_active |-> NoSummary,
      hikaricp_pending |-> NoSummary ]

\* MetricsResult.has_headroom: cpu.avg_val < 1.0 (10 tenths) and no pending
\* connection, when both summaries exist.
has_headroom(m) ==
    IF m.cpu.exists /\ m.hikaricp_pending.exists
    THEN m.cpu.avg_val < 10 /\ m.hikaricp_pending.max_val = 0
    ELSE FALSE

(***************************************************************************)
(* metrics.py: a metric file and _summarize.  A file is absent, empty,     *)
(* text that is no JSON, bytes that are no UTF-8 text, or a JSON document. *)
(* A JSON document is an object or another value (top); an object has a    *)
(* status, a "data" member that is missing, null or an object, and the     *)
(* series of data.result.  A series has a container label and its values:  *)
(* missing, null or a list of samples.  A sample is a [ts, v] pair or a    *)
(* list of another length; v is a number in text, "NaN", other text or     *)
(* null.                                                                   *)
(***************************************************************************)
MaxSeries == 2      \* series of a metric file
MaxSamples == 2     \* samples of a series

FileKinds == {"absent", "empty", "garbage", "binary", "json"}

Samples ==
    [shape : {"pair"}, v : {"num"}, n : {1, 3}]
    \cup [shape : {"pair"}, v : {"NaN", "text", "null"}, n : {0}]
    \cup [shape : {"short"}, v : {"null"}, n : {0}]

Containers == {"webapp", "other"}

\* A series: "values" is missing, null or a list; values holds the samples of a
\* list, and target.get("values", []) of a series without the key is [].
Series(container, shape) == [container |-> container, shape |-> shape, values |-> <<>>]

MetricFile(kind, top, status, data) ==
    [kind |-> kind, top |-> top, status |-> status, data |-> data, result |-> <<>>]

\* float(v) succeeds and is not NaN
IsNum(sample) == sample.v = "num"

\* nums: the numbers of the samples, in order
RECURSIVE Nums(_)
Nums(values) ==
    IF values = <<>> THEN <<>>
    ELSE IF IsNum(Head(values)) THEN <<Head(values).n>> \o Nums(Tail(values))
    ELSE Nums(Tail(values))

RECURSIVE SumSeq(_)
SumSeq(nums) == IF nums = <<>> THEN 0 ELSE Head(nums) + SumSeq(Tail(nums))

MinOf(nums) == CHOOSE m \in {nums[i] : i \in 1..Len(nums)} :
                   \A i \in 1..Len(nums) : m <= nums[i]
MaxOf(nums) == CHOOSE m \in {nums[i] : i \in 1..Len(nums)} :
                   \A i \in 1..Len(nums) : m >= nums[i]

\* target: the first series labelled webapp or dispatcher, else results[0]
Target(results) ==
    IF \E i \in 1..Len(results) : results[i].container = "webapp"
    THEN results[CHOOSE i \in 1..Len(results) :
                     /\ results[i].container = "webapp"
                     /\ \A j \in 1..(i - 1) : results[j].container # "webapp"]
    ELSE results[1]

Returned(summary) == [raised |-> FALSE, summary |-> summary]
Raised == [raised |-> TRUE, summary |-> NoSummary]

\* 'except (FileNotFoundError, json.JSONDecodeError)': what open and json.load
\* raise on an absent, an empty and a non-JSON text file.  The
\* UnicodeDecodeError of a file that is no UTF-8 text is not in the tuple.
LoadIsCaught(file) == file.kind \in {"absent", "empty", "garbage"}

\* _summarize(path, name, unit); avg_val is kept as the fraction <<sum, n>>.
summarize(file) ==
    IF LoadIsCaught(file) THEN Returned(NoSummary)
    ELSE IF file.kind = "binary" THEN Raised
    ELSE IF file.top # "object" THEN Raised             \* data.get on a non-dict
    ELSE IF file.status # "success" THEN Returned(NoSummary)
    ELSE IF file.data = "null" THEN Raised              \* None.get("result")
    ELSE IF file.data = "missing" \/ file.result = <<>> THEN Returned(NoSummary)
    ELSE LET target == Target(file.result)
             values == target.values
         IN  IF target.shape = "null" THEN Raised       \* for _, v in None
             ELSE IF \E i \in 1..Len(values) : values[i].shape # "pair"
             THEN Raised                                \* '_, v' does not unpack
             ELSE LET nums == Nums(values)
                  IN  IF nums = <<>> THEN Returned(NoSummary)
                      ELSE Returned(MetricSummary(MinOf(nums), MaxOf(nums),
                                                  <<SumSeq(nums), Len(nums)>>))

\* The metrics of a directory that analyze reads and correlate uses.
MetricNames == {"cpu", "memory", "hikaricp_active", "hikaricp_pending"}

\* metrics.analyze on a directory that holds the one file 'file' for the metric
\* 'name' and no other file.  The HikariCP files are found by glob: an absent
\* file is not summarised at all.
metrics_analyze(name, file) ==
    LET s == IF file.kind = "absent" THEN Returned(NoSummary) ELSE summarize(file)
    IN  [raised |-> s.raised,
         result |-> [MetricsResult EXCEPT ![name] = s.summary]]

(***************************************************************************)
(* app_logs.py: DispatcherTimeline and analyze_dispatcher_logs.  The       *)
(* envelope has a status and the streams of data.result; a stream has its  *)
(* type (stream.stream), its pod (stream.pod, "" when the label is absent) *)
(* and its values, each a timestamp in ns and a line.  A line is one of:   *)
(*   "RunningJob"     ... Running job 236757 ...                           *)
(*   "RunningJobNoId" ... Running job (no digits after it)                 *)
(*   "FinishedS3"     ... Finished ... S3 ...                              *)
(*   "Other"          none of the markers                                  *)
(***************************************************************************)
DispatcherTimeline ==
    [ job_id |-> "", pod_name |-> "", first_log_ns |-> 0, last_log_ns |-> 0,
      compute_start_ns |-> 0, compute_end_ns |-> 0 ]

\* DispatcherTimeline.total_duration_s and compute_duration_s, in ns
dispatcher_total_duration_s(t) ==
    IF t.first_log_ns # 0 /\ t.last_log_ns # 0
    THEN t.last_log_ns - t.first_log_ns ELSE 0
compute_duration_s(t) ==
    IF t.compute_start_ns # 0 /\ t.compute_end_ns # 0
    THEN t.compute_end_ns - t.compute_start_ns ELSE 0

\* all_entries: the values of the streams in stream order, each with the type
\* of its stream
RECURSIVE AllEntries(_)
AllEntries(streams) ==
    IF streams = <<>> THEN <<>>
    ELSE LET stream == Head(streams)
             Tag(i) == [ts |-> stream.values[i].ts, line |-> stream.values[i].line,
                        stype |-> stream.stream]
         IN  [i \in 1..Len(stream.values) |-> Tag(i)] \o AllEntries(Tail(streams))

\* timeline.pod_name: the pod of the last stream that has one
RECURSIVE PodName(_)
PodName(streams) ==
    IF streams = <<>> THEN ""
    ELSE IF streams[Len(streams)].pod # "" THEN streams[Len(streams)].pod
    ELSE PodName(SubSeq(streams, 1, Len(streams) - 1))

HasRunningJob(e) == e.line \in {"RunningJob", "RunningJobNoId"}
IsFinishedS3(e) == e.stype = "stdout" /\ e.line = "FinishedS3"

\* The first entry with 'Running job': its id and timestamp when digits follow.
JobOf(entries) ==
    LET hits == {i \in 1..Len(entries) : HasRunningJob(entries[i])}
        first == CHOOSE i \in hits : \A j \in hits : i <= j
    IN  IF hits # {} /\ entries[first].line = "RunningJob"
        THEN [job_id |-> "236757", compute_start_ns |-> entries[first].ts]
        ELSE [job_id |-> "", compute_start_ns |-> 0]

\* The last stdout entry with 'Finished' and 'S3'; when that leaves
\* compute_end_ns falsy, the last stdout entry.
ComputeEnd(entries) ==
    LET hits == {i \in 1..Len(entries) : IsFinishedS3(entries[i])}
        last == CHOOSE i \in hits : \A j \in hits : i >= j
        found == IF hits # {} THEN entries[last].ts ELSE 0
        stdout_entries == SelectSeq(entries, LAMBDA e : e.stype = "stdout")
    IN  IF found # 0 THEN found
        ELSE IF stdout_entries # <<>> THEN stdout_entries[Len(stdout_entries)].ts
        ELSE 0

analyze_dispatcher_logs(data) ==
    IF ~IsSuccess(data) THEN DispatcherTimeline
    ELSE LET unsorted == AllEntries(data.result)
             all_entries == SortByTs(unsorted)
             named == [DispatcherTimeline EXCEPT !.pod_name = PodName(data.result)]
             job == JobOf(all_entries)
         IN  IF unsorted = <<>> THEN named
             ELSE [named EXCEPT
                     !.first_log_ns = all_entries[1].ts,
                     !.last_log_ns = all_entries[Len(all_entries)].ts,
                     !.job_id = job.job_id,
                     !.compute_start_ns = job.compute_start_ns,
                     !.compute_end_ns = ComputeEnd(all_entries)]

(***************************************************************************)
(* correlator.py: correlate.  A Finding keeps its rank, its title and the  *)
(* number its estimated_savings_s is formatted from (0 for a fixed text).  *)
(***************************************************************************)
Finding(rank, title, amount) == [rank |-> rank, title |-> title, amount |-> amount]

\* Finding 1: if orchestration.resume_overheads
Finding1(o) ==
    IF o.resume_overheads # <<>>
    THEN <<Finding(1, "Reduce Concord Resume Overhead", total_resume_overhead_s(o))>>
    ELSE <<>>

\* Finding 2: if len(orchestration.children) > 1 and orchestration.resume_count > 1
Finding2(o) ==
    IF Len(o.children) > 1 /\ resume_count(o) > 1
    THEN <<Finding(2, "Parallelize Concord Child Checking", 0)>>
    ELSE <<>>

\* Finding 3: if dispatcher.job_id
Finding3(d) ==
    IF d.job_id # ""
    THEN <<Finding(3, "Reduce K8s Pod Startup Latency", 0)>>
    ELSE <<>>

\* Finding 4: the last of the pools sorted by start_ms against the first
Finding4(kono) ==
    IF Len(kono.pools) >= 2
    THEN LET sorted_pools == SortedPools(kono.pools)
             later_pool == sorted_pools[Len(sorted_pools)]
         IN  IF start_ms(later_pool) > stop_ms(sorted_pools[1])
             THEN <<Finding(4, "Run Kono ForkJoinPools Concurrently",
                            wall_clock_s(later_pool.tests))>>
             ELSE <<>>
    ELSE <<>>

\* threshold_s=340.0, in ms
SetupThresholdMs == 340000

\* Finding 5: if setup (the dict is not empty)
Finding5(substantiate) ==
    IF ~setup_phase_analysis(substantiate, SetupThresholdMs).empty
    THEN <<Finding(5, "Parallelize Substantiate Setup Chain", 0)>>
    ELSE <<>>

\* Finding 6: if polling and polling["polling_pct"] > 50
Finding6(substantiate) ==
    LET polling == polling_analysis(substantiate)
    IN  IF ~polling.empty /\ PollingPctOver50(polling)
        THEN <<Finding(6, "Reduce Substantiate Polling Interval", 0)>>
        ELSE <<>>

\* Finding 7: if metrics_result.cpu and metrics_result.hikaricp_pending
HeadroomGate(m) == m.cpu.exists /\ m.hikaricp_pending.exists

Finding7(m) ==
    IF HeadroomGate(m)
    THEN <<Finding(7, "Application Has Massive Resource Headroom", 0)>>
    ELSE <<>>

\* The evidence of finding 7 reads metrics_result.memory.avg_val unguarded:
\* with memory None that is an AttributeError.
Finding7Raises(m) == HeadroomGate(m) /\ ~m.memory.exists

\* for warning in app_logs.warnings: rank 8 or rank 9 by category
RECURSIVE WarningFindings(_)
WarningFindings(warnings) ==
    IF warnings = <<>> THEN <<>>
    ELSE LET warning == Head(warnings)
         IN  (IF warning.category = "EffectConsumer queue blocking"
              THEN <<Finding(8, "Fix EffectConsumer Queue Blocking", warning.count)>>
              ELSE IF warning.category = "Hibernate dialect mismatch"
              THEN <<Finding(9, "Fix Hibernate Dialect Mismatch", 0)>>
              ELSE <<>>)
             \o WarningFindings(Tail(warnings))

\* Finding 10: if substantiate.failed_tests
Finding10(substantiate) ==
    LET failed == failed_tests(substantiate)
    IN  IF failed # <<>>
        THEN <<Finding(10, "Investigate Flaky Substantiate Test", failed[1].duration)>>
        ELSE <<>>

correlate(c) ==
    IF Finding7Raises(c.metrics_result)
    THEN [raised |-> TRUE, findings |-> <<>>]
    ELSE [ raised |-> FALSE,
           findings |->
               Finding1(c.orchestration) \o Finding2(c.orchestration)
               \o Finding3(c.dispatcher) \o Finding4(c.kono)
               \o Finding5(c.substantiate) \o Finding6(c.substantiate)
               \o Finding7(c.metrics_result)
               \o WarningFindings(c.app_logs.warnings)
               \o Finding10(c.substantiate) ]

\* A run that starts from the object an earlier run left behind.
Stale(left, new) == left

\* 'result = OrchestrationResult()' with default_factory lists, 'findings = []':
\* a run starts from a new object, whatever an earlier run left behind.
Fresh(left, new) == new

\* analyze, as the appends it makes to the result object it starts from
analyze_on(result, lines) ==
    LET r == analyze(lines)
    IN  IF SelectSeq(lines, Matches) = <<>> THEN result
        ELSE [ phases |-> result.phases \o r.phases,
               children |-> result.children \o r.children,
               suspend_times |-> result.suspend_times \o r.suspend_times,
               resume_overheads |-> result.resume_overheads \o r.resume_overheads,
               total_start |-> r.total_start,
               total_end |-> r.total_end ]

\* correlate, as the appends it makes to the findings list it starts from
correlate_on(findings, c) ==
    LET r == correlate(c)
    IN  IF r.raised THEN r
        ELSE [raised |-> FALSE, findings |-> findings \o r.findings]

\* The arguments of a call in which every source is empty.
NoInputs ==
    [ orchestration |-> OrchestrationResult, kono |-> TestSuiteResult,
      substantiate |-> TestSuiteResult, app_logs |-> AppLogsResult,
      dispatcher |-> DispatcherTimeline, metrics_result |-> MetricsResult ]

(***************************************************************************)
(* The orchestration analyzer on a free-form log: any lines, in any file   *)
(* order, with any timestamps.                                             *)
(***************************************************************************)
LogsIdle ==
    envelope = [status |-> "success", entries |-> <<>>] /\ applogs = AppLogsResult
    /\ lpc = "off"

CorrIdle == cin = NoInputs /\ corr = [raised |-> FALSE, findings |-> <<>>] /\ cpc = "off"

OrchIdle == log = <<>> /\ orch = OrchestrationResult /\ opc = "off"

SuiteIdle == timeline = <<>> /\ suite = TestSuiteResult /\ tpc = "off"

WriterIdle ==
    /\ wphase = "off" /\ wclock = 0 /\ wstart = None /\ wcycles = 0 /\ wsum = 0

MetricsIdle ==
    /\ mfile = MetricFile("absent", "object", "success", "missing")
    /\ mname = "cpu" /\ mres = [raised |-> FALSE, result |-> MetricsResult]
    /\ mpc = "off"

DispatcherIdle ==
    /\ denvelope = [status |-> "success", result |-> <<>>]
    /\ dtimeline = DispatcherTimeline /\ dpc = "off"

TwiceIdle ==
    /\ orch2 = OrchestrationResult
    /\ corr2 = [raised |-> FALSE, findings |-> <<>>] /\ rpc = "off"

FetchIdle ==
    /\ fin = [ bucket |-> "", prefix |-> <<>>, process_date |-> "",
               instance_id |-> "", explicit_locations |-> {},
               allow_discovery_fallback |-> FALSE ]
    /\ fst = [pc |-> "off", i |-> 0, latest |-> {}, discovered |-> {}]
    /\ calls = <<>>

OthersIdle == MetricsIdle /\ DispatcherIdle /\ TwiceIdle /\ FetchIdle

\* What the metrics analyzer and the dispatcher-log analyzer leave alone.
NotMetrics == <<ovars, wvars, tvars, lvars, cvars, dvars, rvars, svars>>
NotDisp == <<ovars, wvars, tvars, lvars, cvars, mvars, rvars, svars>>

InitOrch ==
    /\ log = <<>>
    /\ orch = OrchestrationResult
    /\ opc = "write"
    /\ WriterIdle /\ SuiteIdle /\ LogsIdle /\ CorrIdle /\ OthersIdle

\* One more line in the log file.
AppendLine ==
    /\ opc = "write"
    /\ Len(log) < MaxLines
    /\ \E ts \in 0..MaxTs, msg \in Messages :
          /\ msg.kind = "NoTimestamp" => ts = 0      \* it has no timestamp
          /\ log' = Append(log, Line(ts, msg))
    /\ UNCHANGED <<orch, opc, wvars, tvars, lvars, cvars, others>>

\* orchestration.analyze(log_path)
Analyze ==
    /\ opc = "write"
    /\ orch' = analyze(log)
    /\ opc' = "done"
    /\ UNCHANGED <<log, wvars, tvars, lvars, cvars, others>>

NextOrch == AppendLine \/ Analyze

SpecOrch == InitOrch /\ [][NextOrch]_vars

(***************************************************************************)
(* The orchestration analyzer on a log made of the four messages the       *)
(* suspend/resume loop reads, in any order and with any timestamps.        *)
(***************************************************************************)
MaxResumeLines == 5

ResumeTs == {0, 1}

ResumeMessages ==
    [kind : {"StoringPolicy", "Suspended", "Running"}, arg : {0}]
    \cup [kind : {"ExportTook"}, arg : ExportMs]

InitResume == InitOrch

\* One more line in the log file.
AppendResumeLine ==
    /\ opc = "write"
    /\ Len(log) < MaxResumeLines
    /\ \E ts \in ResumeTs, msg \in ResumeMessages : log' = Append(log, Line(ts, msg))
    /\ UNCHANGED <<orch, opc, wvars, tvars, lvars, cvars, others>>

NextResume == AppendResumeLine \/ Analyze

SpecResume == InitResume /\ [][NextResume]_vars

(***************************************************************************)
(* The orchestration analyzer on a log file and on the same lines in       *)
(* another order.  Timestamps come from three instants, so that the lines  *)
(* of a file can all differ in time, or not.                               *)
(***************************************************************************)
MaxPermLines == 3

PermTs == {0, 1, 2}

PermMessages ==
    [ kind : { "StoringPolicy", "ExportingRepo", "AssumingRole", "ConnectingMica",
               "HelmInstallUpgrade", "Suspended", "Running", "NoTimestamp" },
      arg : {0} ]
    \cup [kind : {"StartedChild"}, arg : ChildIds]

\* f.readlines() of a file that holds the same lines in the order p
Permuted(lines, p) == [i \in 1..Len(lines) |-> lines[p[i]]]

\* One more line in the log file.
AppendDatedLine ==
    /\ opc = "write"
    /\ Len(log) < MaxPermLines
    /\ \E ts \in PermTs, msg \in PermMessages :
          /\ msg.kind = "NoTimestamp" => ts = 0      \* it has no timestamp
          /\ log' = Append(log, Line(ts, msg))
    /\ UNCHANGED <<orch, opc, wvars, tvars, lvars, cvars, others>>

\* orchestration.analyze on the file and on a file with its lines reordered
AnalyzePermuted ==
    /\ opc = "write"
    /\ orch' = analyze(log)
    /\ \E p \in Permutations(1..Len(log)) : orch2' = analyze(Permuted(log, p))
    /\ opc' = "done"
    /\ UNCHANGED <<log, corr2, rpc, wvars, tvars, lvars, cvars, mvars, dvars, svars>>

NextPermuted == AppendDatedLine \/ AnalyzePermuted

SpecPermuted == InitOrch /\ [][NextPermuted]_vars

(***************************************************************************)
(* The orchestration analyzer on a log of the same four messages whose     *)
(* lines carry increasing timestamps (line n is written at time n), long   *)
(* enough for two resume windows after the first RUNNING line.             *)
(***************************************************************************)
MaxWindowLines == 6

InitWindows == InitOrch

\* One more line in the log file, later than the lines before it.
AppendWindowLine ==
    /\ opc = "write"
    /\ Len(log) < MaxWindowLines
    /\ \E msg \in ResumeMessages : log' = Append(log, Line(Len(log) + 1, msg))
    /\ UNCHANGED <<orch, opc, wvars, tvars, lvars, cvars, others>>

NextWindows == AppendWindowLine \/ Analyze

SpecWindows == InitWindows /\ [][NextWindows]_vars

(***************************************************************************)
(* The orchestration analyzer on the log of a Concord process: an initial  *)
(* start that ends in the first 'Process status: RUNNING' line, then       *)
(* suspend/resume cycles (SUSPENDED, 'Storing policy', optionally          *)
(* 'Repository data export took <N>ms', RUNNING).  The process writes its  *)
(* lines in time order; wcycles and wsum record what it really did.        *)
(***************************************************************************)
InitCycles ==
    /\ log = <<>>
    /\ orch = OrchestrationResult
    /\ opc = "write"
    /\ wphase = "starting" /\ wclock = 0 /\ wstart = None /\ wcycles = 0 /\ wsum = 0
    /\ SuiteIdle /\ LogsIdle /\ CorrIdle /\ OthersIdle

Write(ts, kind, arg) ==
    /\ log' = Append(log, [ts |-> ts, kind |-> kind, arg |-> arg])
    /\ wclock' = ts

\* The initial start: 'Storing policy', then the repository export.
WriteStartPolicy ==
    /\ opc = "write" /\ wphase = "starting"
    /\ Write(wclock, "StoringPolicy", 0)
    /\ wphase' = "exporting"
    /\ UNCHANGED <<orch, opc, wstart, wcycles, wsum, tvars, lvars, cvars, others>>

WriteStartExport ==
    /\ opc = "write" /\ wphase = "exporting"
    /\ \E ms \in ExportMs : Write(wclock, "ExportTook", ms)
    /\ wphase' = "exported0"
    /\ UNCHANGED <<orch, opc, wstart, wcycles, wsum, tvars, lvars, cvars, others>>

WriteFirstRunning ==
    /\ opc = "write" /\ wphase \in {"starting", "exporting", "exported0"}
    /\ \E g \in 0..MaxGap : Write(wclock + g, "Running", 0)
    /\ wphase' = "running"
    /\ UNCHANGED <<orch, opc, wstart, wcycles, wsum, tvars, lvars, cvars, others>>

WriteSuspended ==
    /\ opc = "write" /\ wphase = "running" /\ wcycles < MaxCycles
    /\ Write(wclock + 1, "Suspended", 0)
    /\ wphase' = "suspended"
    /\ UNCHANGED <<orch, opc, wstart, wcycles, wsum, tvars, lvars, cvars, others>>

WriteResumePolicy ==
    /\ opc = "write" /\ wphase = "suspended"
    /\ \E g \in 0..MaxGap :
          /\ Write(wclock + g, "StoringPolicy", 0)
          /\ wstart' = wclock + g
    /\ wphase' = "resuming"
    /\ UNCHANGED <<orch, opc, wcycles, wsum, tvars, lvars, cvars, others>>

WriteResumeExport ==
    /\ opc = "write" /\ wphase = "resuming"
    /\ \E g \in 0..MaxGap, ms \in ExportMs : Write(wclock + g, "ExportTook", ms)
    /\ wphase' = "exported"
    /\ UNCHANGED <<orch, opc, wstart, wcycles, wsum, tvars, lvars, cvars, others>>

WriteResumeRunning ==
    /\ opc = "write" /\ wphase \in {"resuming", "exported"}
    /\ \E g \in 0..MaxGap :
          /\ Write(wclock + g, "Running", 0)
          /\ wsum' = wsum + ((wclock + g) - wstart)
    /\ wcycles' = wcycles + 1
    /\ wphase' = "running"
    /\ UNCHANGED <<orch, opc, wstart, tvars, lvars, cvars, others>>

NextCycles ==
    \/ WriteStartPolicy \/ WriteStartExport \/ WriteFirstRunning
    \/ WriteSuspended \/ WriteResumePolicy \/ WriteResumeExport
    \/ WriteResumeRunning
    \/ Analyze

SpecCycles == InitCycles /\ [][NextCycles]_vars

(***************************************************************************)
(* The test-timeline analyzer on any timeline of at most MaxTests tests.   *)
(***************************************************************************)
Statuses == {"passed"}

Entries ==
    { [worker |-> w, start |-> a, stop |-> b, duration |-> d, status |-> st] :
        w \in Workers, a \in 0..MaxTime, b \in 0..MaxTime, d \in 0..MaxDur,
        st \in Statuses }

InitSuite ==
    /\ timeline = <<>> /\ suite = TestSuiteResult /\ tpc = "write"
    /\ OrchIdle /\ WriterIdle /\ LogsIdle /\ CorrIdle /\ OthersIdle

\* One more test in the timeline; a test stops no earlier than it starts.
AddTest ==
    /\ tpc = "write"
    /\ Len(timeline) < MaxTests
    /\ \E e \in Entries : e.start <= e.stop /\ timeline' = Append(timeline, e)
    /\ UNCHANGED <<suite, tpc, ovars, wvars, lvars, cvars, others>>

\* test_reports.analyze_timeline(timeline_path, suite_name)
AnalyzeTimeline ==
    /\ tpc = "write"
    /\ suite' = analyze_timeline(timeline)
    /\ tpc' = "done"
    /\ UNCHANGED <<timeline, ovars, wvars, lvars, cvars, others>>

NextSuite == AddTest \/ AnalyzeTimeline

SpecSuite == InitSuite /\ [][NextSuite]_vars

(***************************************************************************)
(* The webapp-log analyzer on any envelope of at most MaxEntries entries.  *)
(***************************************************************************)
InitLogs ==
    /\ envelope \in [status : {"success", "error"}, entries : {<<>>}]
    /\ applogs = AppLogsResult
    /\ lpc = "write"
    /\ OrchIdle /\ WriterIdle /\ SuiteIdle /\ CorrIdle /\ OthersIdle

\* One more (timestamp, line) pair in the streams of the envelope.
AddEntry ==
    /\ lpc = "write"
    /\ Len(envelope.entries) < MaxEntries
    /\ \E line \in WebLines :
          envelope' = [envelope EXCEPT !.entries = Append(@, line)]
    /\ UNCHANGED <<applogs, lpc, ovars, wvars, tvars, cvars, others>>

\* app_logs.analyze_webapp_logs(log_path)
AnalyzeWebappLogs ==
    /\ lpc = "write"
    /\ applogs' = analyze_webapp_logs(envelope)
    /\ lpc' = "done"
    /\ UNCHANGED <<envelope, ovars, wvars, tvars, cvars, others>>

NextLogs == AddEntry \/ AnalyzeWebappLogs

SpecLogs == InitLogs /\ [][NextLogs]_vars

(***************************************************************************)
(* correlate on result objects.  The six arguments are chosen one after    *)
(* the other, in the order cli.py computes them, and then correlate is     *)
(* called.  The orchestration and suite arguments are the analyzers'       *)
(* results on a few artifacts; the others are result objects built field   *)
(* by field, as any caller of correlate may build them.                    *)
(***************************************************************************)
L(ts, kind, arg) == [ts |-> ts, kind |-> kind, arg |-> arg]

CorrLogs ==
    { <<>>,
      \* one child, one suspend/resume cycle
      << L(0, "Running", 0), L(1, "StartedChild", 1), L(2, "Suspended", 0),
         L(3, "StoringPolicy", 0), L(4, "ExportTook", 1), L(6, "Running", 0) >>,
      \* two children, two cycles
      << L(0, "Running", 0), L(1, "StartedChild", 1), L(1, "StartedChild", 2),
         L(2, "Suspended", 0), L(3, "StoringPolicy", 0), L(5, "Running", 0),
         L(6, "Suspended", 0), L(7, "StoringPolicy", 0), L(9, "Running", 0) >> }

E(worker, start, stop, duration, status) ==
    [worker |-> worker, start |-> start, stop |-> stop, duration |-> duration,
     status |-> status]

KonoTimelines ==
    { <<>>,
      << E("3423@host.ForkJoinPool-1-worker-7", 0, 5, 5, "passed") >>,
      \* Pool-2 starts after Pool-1 has stopped
      << E("3423@host.ForkJoinPool-1-worker-7", 0, 5, 5, "passed"),
         E("3423@host.ForkJoinPool-2-worker-3", 6, 9, 3, "passed") >>,
      \* Pool-2 starts while Pool-1 runs
      << E("3423@host.ForkJoinPool-1-worker-7", 0, 5, 5, "passed"),
         E("3423@host.ForkJoinPool-2-worker-3", 3, 9, 6, "passed") >> }

SubstantiateTimelines ==
    { <<>>,
      << E("pid-20-worker-8", 0, 1000, 1000, "passed") >>,
      << E("pid-20-worker-8", 0, 20000, 20000, "passed") >>,
      << E("pid-20-worker-8", 0, 1000, 1000, "failed") >>,
      << E("pid-20-worker-8", 0, 20000, 20000, "failed"),
         E("pid-20-worker-8", 20000, 21000, 1000, "passed") >> }

WarningCategories ==
    { "EffectConsumer queue blocking", "Hibernate dialect mismatch",
      "Missing dataset attribute mappings" }

CpuSummaries == {NoSummary, MetricSummary(1, 21, 4), MetricSummary(10, 30, 20)}
PendingSummaries == {NoSummary, MetricSummary(0, 0, 0), MetricSummary(0, 3, 1)}
MemorySummaries == {NoSummary, MetricSummary(1600, 1600, 1600)}
ActiveSummaries == {NoSummary, MetricSummary(0, 4, 2)}

InitCorr ==
    /\ cin = NoInputs
    /\ corr = [raised |-> FALSE, findings |-> <<>>]
    /\ cpc = "orchestration"
    /\ OrchIdle /\ WriterIdle /\ SuiteIdle /\ LogsIdle /\ OthersIdle

Rest == <<corr, ovars, wvars, tvars, lvars, others>>

GivenOrchestration ==
    /\ cpc = "orchestration"
    /\ \E l \in CorrLogs : cin' = [cin EXCEPT !.orchestration = analyze(l)]
    /\ cpc' = "kono"
    /\ UNCHANGED Rest

GivenKono ==
    /\ cpc = "kono"
    /\ \E t \in KonoTimelines : cin' = [cin EXCEPT !.kono = analyze_timeline(t)]
    /\ cpc' = "substantiate"
    /\ UNCHANGED Rest

GivenSubstantiate ==
    /\ cpc = "substantiate"
    /\ \E t \in SubstantiateTimelines :
          cin' = [cin EXCEPT !.substantiate = analyze_timeline(t)]
    /\ cpc' = "app_logs"
    /\ UNCHANGED Rest

\* The warnings list grows by one LogWarning, or is complete.
GivenWarning ==
    /\ cpc = "app_logs"
    /\ Len(cin.app_logs.warnings) < MaxWarnings
    /\ \E cat \in WarningCategories :
          cin' = [cin EXCEPT !.app_logs.warnings = Append(@, LogWarning(cat, 1, ""))]
    /\ UNCHANGED <<cpc, Rest>>

GivenAppLogs ==
    /\ cpc = "app_logs"
    /\ cpc' = "dispatcher"
    /\ UNCHANGED <<cin, Rest>>

GivenDispatcher ==
    /\ cpc = "dispatcher"
    /\ \E id \in {"", "236757"} : cin' = [cin EXCEPT !.dispatcher.job_id = id]
    /\ cpc' = "metrics"
    /\ UNCHANGED Rest

GivenMetrics ==
    /\ cpc = "metrics"
    /\ \E cpu \in CpuSummaries, pending \in PendingSummaries,
          memory \in MemorySummaries, active \in ActiveSummaries :
          cin' = [cin EXCEPT !.metrics_result =
                      [ cpu |-> cpu, memory |-> memory, hikaricp_active |-> active,
                        hikaricp_pending |-> pending ]]
    /\ cpc' = "call"
    /\ UNCHANGED Rest

\* correlator.correlate(orchestration, kono, substantiate, app_logs, dispatcher,
\* metrics_result)
Correlate ==
    /\ cpc = "call"
    /\ corr' = correlate(cin)
    /\ cpc' = "done"
    /\ UNCHANGED <<cin, ovars, wvars, tvars, lvars, others>>

NextCorr ==
    \/ GivenOrchestration \/ GivenKono \/ GivenSubstantiate
    \/ GivenWarning \/ GivenAppLogs \/ GivenDispatcher \/ GivenMetrics
    \/ Correlate

SpecCorr == InitCorr /\ [][NextCorr]_vars

(***************************************************************************)
(* The metrics analyzer on a directory with one metric file.  The file is  *)
(* any of the file kinds; a JSON object with a data object gets its series *)
(* and their samples one at a time.                                        *)
(***************************************************************************)
MetricFiles ==
    { MetricFile(kind, "object", "success", "missing") : kind \in FileKinds \ {"json"} }
    \cup { MetricFile("json", "other", "success", "missing") }
    \cup { MetricFile("json", "object", status, data) :
              status \in {"success", "error"}, data \in {"missing", "null", "object"} }

InitMetrics ==
    /\ mfile \in MetricFiles
    /\ mname \in MetricNames
    /\ mres = [raised |-> FALSE, result |-> MetricsResult]
    /\ mpc = "write"
    /\ OrchIdle /\ WriterIdle /\ SuiteIdle /\ LogsIdle /\ CorrIdle
    /\ DispatcherIdle /\ TwiceIdle /\ FetchIdle

HasResult(file) == file.kind = "json" /\ file.top = "object" /\ file.data = "object"

\* One more series in data.result.
AddSeries ==
    /\ mpc = "write" /\ HasResult(mfile)
    /\ Len(mfile.result) < MaxSeries
    /\ \E container \in Containers, shape \in {"missing", "null", "list"} :
          mfile' = [mfile EXCEPT !.result = Append(@, Series(container, shape))]
    /\ UNCHANGED <<mname, mres, mpc, NotMetrics>>

\* One more sample in the values of the last series.
AddSample ==
    /\ mpc = "write" /\ HasResult(mfile)
    /\ mfile.result # <<>>
    /\ LET k == Len(mfile.result)
           values == mfile.result[k].values
       IN  /\ mfile.result[k].shape = "list"
           /\ Len(values) < MaxSamples
           /\ \E sample \in Samples :
                 mfile' = [mfile EXCEPT !.result[k].values = Append(@, sample)]
    /\ UNCHANGED <<mname, mres, mpc, NotMetrics>>

\* metrics.analyze(metrics_dir)
MetricsAnalyze ==
    /\ mpc = "write"
    /\ mres' = metrics_analyze(mname, mfile)
    /\ mpc' = "done"
    /\ UNCHANGED <<mfile, mname, NotMetrics>>

NextMetrics == AddSeries \/ AddSample \/ MetricsAnalyze

SpecMetrics == InitMetrics /\ [][NextMetrics]_vars

(***************************************************************************)
(* The dispatcher-log analyzer on any envelope of at most MaxStreams       *)
(* streams.  A stream is written whole, with no value or with one: two     *)
(* values of one stream are two streams of the same type and pod here.     *)
(***************************************************************************)
MaxStreams == 2     \* streams of a dispatcher envelope

DispTimes == {1, 2}
DispLines == {"RunningJob", "RunningJobNoId", "FinishedS3", "Other"}
EnvelopeStatuses == {"success", "error", "missing"}

Streams ==
    { [stream |-> stype, pod |-> pod, values |-> values] :
        stype \in {"stdout", "stderr"}, pod \in {"", "dispatcher-1"},
        values \in {<<>>} \cup {<<[ts |-> ts, line |-> line]>> :
                                   ts \in DispTimes, line \in DispLines} }

InitDisp ==
    /\ denvelope \in [status : EnvelopeStatuses, result : {<<>>}]
    /\ dtimeline = DispatcherTimeline
    /\ dpc = "write"
    /\ OrchIdle /\ WriterIdle /\ SuiteIdle /\ LogsIdle /\ CorrIdle
    /\ MetricsIdle /\ TwiceIdle /\ FetchIdle

\* One more stream in data.result.
AddStream ==
    /\ dpc = "write"
    /\ Len(denvelope.result) < MaxStreams
    /\ \E stream \in Streams :
          denvelope' = [denvelope EXCEPT !.result = Append(@, stream)]
    /\ UNCHANGED <<dtimeline, dpc, NotDisp>>

\* app_logs.analyze_dispatcher_logs(log_path)
AnalyzeDispatcherLogs ==
    /\ dpc = "write"
    /\ dtimeline' = analyze_dispatcher_logs(denvelope)
    /\ dpc' = "done"
    /\ UNCHANGED <<denvelope, NotDisp>>

NextDisp == AddStream \/ AnalyzeDispatcherLogs

SpecDisp == InitDisp /\ [][NextDisp]_vars

(***************************************************************************)
(* A session that runs the orchestration analyzer twice on one log and     *)
(* then correlate twice on one set of arguments, in one Python process.    *)
(***************************************************************************)
InitTwice ==
    /\ log \in CorrLogs
    /\ orch = OrchestrationResult
    /\ opc = "write"
    /\ orch2 = OrchestrationResult
    /\ corr2 = [raised |-> FALSE, findings |-> <<>>]
    /\ rpc = "analyze"
    /\ WriterIdle /\ SuiteIdle /\ LogsIdle /\ CorrIdle /\ MetricsIdle /\ DispatcherIdle
    /\ FetchIdle

NotTwice == <<wvars, tvars, lvars, mvars, dvars, svars>>

\* the first orchestration.analyze(log_path)
AnalyzeOnce ==
    /\ rpc = "analyze"
    /\ orch' = analyze_on(Fresh(orch, OrchestrationResult), log)
    /\ opc' = "done"
    /\ rpc' = "reanalyze"
    /\ UNCHANGED <<log, orch2, corr2, cvars, NotTwice>>

\* the second orchestration.analyze(log_path), on the same file
AnalyzeAgain ==
    /\ rpc = "reanalyze"
    /\ orch2' = analyze_on(Fresh(orch, OrchestrationResult), log)
    /\ rpc' = "inputs"
    /\ UNCHANGED <<ovars, corr2, cvars, NotTwice>>

\* The other five arguments of correlate.
GivenInputs ==
    /\ rpc = "inputs"
    /\ \E k \in KonoTimelines, t \in SubstantiateTimelines, id \in {"", "236757"},
          cpu \in CpuSummaries, pending \in PendingSummaries,
          w \in {<<>>, <<LogWarning("EffectConsumer queue blocking", 1, "")>>} :
          cin' = [ orchestration |-> orch2,
                   kono |-> analyze_timeline(k),
                   substantiate |-> analyze_timeline(t),
                   app_logs |-> [AppLogsResult EXCEPT !.warnings = w],
                   dispatcher |-> [DispatcherTimeline EXCEPT !.job_id = id],
                   metrics_result |->
                       [MetricsResult EXCEPT !.cpu = cpu, !.hikaricp_pending = pending,
                                             !.memory = MetricSummary(1600, 1600, 1600)] ]
    /\ rpc' = "correlate"
    /\ UNCHANGED <<ovars, orch2, corr2, corr, cpc, NotTwice>>

\* the first correlate(...)
CorrelateOnce ==
    /\ rpc = "correlate"
    /\ corr' = correlate_on(Fresh(corr.findings, <<>>), cin)
    /\ rpc' = "recorrelate"
    /\ UNCHANGED <<ovars, orch2, corr2, cin, cpc, NotTwice>>

\* the second correlate(...), with the same arguments
CorrelateAgain ==
    /\ rpc = "recorrelate"
    /\ corr2' = correlate_on(Fresh(corr.findings, <<>>), cin)
    /\ rpc' = "done"
    /\ UNCHANGED <<ovars, orch2, cvars, NotTwice>>

NextTwice ==
    AnalyzeOnce \/ AnalyzeAgain \/ GivenInputs \/ CorrelateOnce \/ CorrelateAgain

SpecTwice == InitTwice /\ [][NextTwice]_vars

(***************************************************************************)
(* s3_reports.py: fetch_reports and the discovery of the report roots.     *)
(* One action per 'aws s3 ls' command: the command is issued, S3 answers,  *)
(* and the code runs up to its next command.  An S3 location is a bucket   *)
(* and the segments of the key.                                            *)
(***************************************************************************)
ReportNames == {"kono-report", "substantiate-report"}

\* reports_bucket = "reports.dev.aetion.com"
ReportsBucket == "reports.dev.aetion.com"

S3Path(bucket, path) == [bucket |-> bucket, path |-> path]

\* datetime.strptime(process_date, "%Y-%m-%d") succeeds
IsIsoDate(d) == d = "2026-02-24"

\* _candidate_roots: the base when there is no date, else the date under the
\* base, as YYYY-MM-DD and YYYYMMDD when it parses and verbatim when not.
candidate_roots(bucket, prefix, process_date) ==
    IF process_date = "" THEN <<S3Path(bucket, prefix)>>
    ELSE IF IsIsoDate(process_date)
    THEN << S3Path(bucket, Append(prefix, "2026-02-24")),
            S3Path(bucket, Append(prefix, "20260224")) >>
    ELSE <<S3Path(bucket, Append(prefix, process_date))>>

\* _discover_from_reports_bucket: candidates, one entry per (name, prefix)
BucketCandidates ==
    << [name |-> "kono-report", prefix |-> "kono-integration"],
       [name |-> "substantiate-report", prefix |-> "substantiate-integration"],
       [name |-> "substantiate-report", prefix |-> "substantiate-e2e"],
       [name |-> "substantiate-report", prefix |-> "substantiate"] >>

\* 'continue': the next prefix, of this logical name or of the next one
AfterContinue(i) == i + 1

\* 'break': the first prefix of the next logical name
AfterBreak(i) ==
    LET later == {j \in (i + 1)..Len(BucketCandidates) :
                     BucketCandidates[j].name # BucketCandidates[i].name}
    IN  IF later = {} THEN Len(BucketCandidates) + 1
        ELSE CHOOSE j \in later : \A k \in later : j <= k

\* What a recursive listing of a date root holds: the logical names whose
\* <name>/data/timeline.json key REPORT_RE finds; ok is FALSE when the command
\* exits non-zero (_run_aws raises RuntimeError).
Listings ==
    {[ok |-> FALSE, names |-> {}]} \cup [ok : {TRUE}, names : SUBSET ReportNames]

\* A directory listing: the command fails, shows no report-* directory, or
\* shows some.  A key listing: fails, lacks timeline.json, or shows it.
DirAnswers == {"fail", "nodirs", "dirs"}
KeyAnswers == {"fail", "absent", "present"}

\* fetch_reports, after discovery: roots holds the names with a location.
\* Every name located: the 'aws s3 cp' downloads run.  Else RuntimeError.
Finish(roots) ==
    [ pc |-> IF ReportNames \subseteq roots THEN "done" ELSE "raised",
      i |-> 0, latest |-> roots, discovered |-> {} ]

\* _discover_report_roots, after the global fallback: return, or raise
\* RuntimeError, which fetch_reports swallows (roots stays the explicit ones).
AfterGlobal(latest) ==
    IF ReportNames \subseteq latest
    THEN Finish(fin.explicit_locations \cup latest)
    ELSE Finish(fin.explicit_locations)

\* _discover_report_roots, after _discover_from_reports_bucket returned
AfterBucket(latest) ==
    IF ReportNames \subseteq latest
    THEN Finish(fin.explicit_locations \cup latest)
    ELSE [pc |-> "global_ls", i |-> 0, latest |-> latest, discovered |-> {}]

\* _discover_from_reports_bucket at candidate i, or its return
BucketAt(i, latest, discovered) ==
    IF i <= Len(BucketCandidates)
    THEN [pc |-> "bucket_ls", i |-> i, latest |-> latest, discovered |-> discovered]
    ELSE AfterBucket(latest \cup discovered)

\* _discover_report_roots, after the loop over the candidate roots
AfterRoots(latest) ==
    IF ReportNames \subseteq latest
    THEN Finish(fin.explicit_locations \cup latest)
    ELSE IF fin.instance_id = "" THEN AfterBucket(latest)
    ELSE BucketAt(1, latest, {})

FetchBuckets == {"bucket"}
FetchPrefixes == {<<>>, <<"aep-dev">>}
FetchDates == {"", "2026-02-24", "20260224"}
FetchInstances == {"", "i1"}

InitFetch ==
    /\ fin \in [ bucket : FetchBuckets, prefix : FetchPrefixes,
                 process_date : FetchDates, instance_id : FetchInstances,
                 explicit_locations : SUBSET ReportNames,
                 allow_discovery_fallback : BOOLEAN ]
    /\ fst = [pc |-> "call", i |-> 0, latest |-> {}, discovered |-> {}]
    /\ calls = <<>>
    /\ OrchIdle /\ WriterIdle /\ SuiteIdle /\ LogsIdle /\ CorrIdle
    /\ MetricsIdle /\ DispatcherIdle /\ TwiceIdle

NotFetch == <<ovars, wvars, tvars, lvars, cvars, mvars, dvars, rvars>>

\* fetch_reports up to its first command
FetchReports ==
    /\ fst.pc = "call"
    /\ fst' = IF ~(ReportNames \subseteq fin.explicit_locations)
                 /\ fin.allow_discovery_fallback
              THEN [pc |-> "roots", i |-> 1, latest |-> {}, discovered |-> {}]
              ELSE Finish(fin.explicit_locations)
    /\ UNCHANGED <<fin, calls, NotFetch>>

\* _discover_report_roots: aws s3 ls <root> --recursive
ListRoot ==
    /\ fst.pc = "roots"
    /\ LET roots == candidate_roots(fin.bucket, fin.prefix, fin.process_date)
       IN  /\ calls' = Append(calls, roots[fst.i])
           /\ \E listing \in Listings :
                 LET latest == fst.latest \cup listing.names
                 IN  fst' = IF ReportNames \subseteq latest \/ fst.i = Len(roots)
                            THEN AfterRoots(latest)
                            ELSE [fst EXCEPT !.i = @ + 1, !.latest = latest]
    /\ UNCHANGED <<fin, NotFetch>>

\* _discover_from_reports_bucket: aws s3 ls s3://reports.../<instance>/<prefix>/
BucketLs ==
    /\ fst.pc = "bucket_ls"
    /\ calls' = Append(calls, S3Path(ReportsBucket,
                           <<fin.instance_id, BucketCandidates[fst.i].prefix>>))
    /\ \E answer \in DirAnswers :
          fst' = IF answer = "dirs" THEN [fst EXCEPT !.pc = "bucket_check"]
                 ELSE BucketAt(AfterContinue(fst.i), fst.latest, fst.discovered)
    /\ UNCHANGED <<fin, NotFetch>>

\* _discover_from_reports_bucket: aws s3 ls <chosen>/data/timeline.json
BucketCheck ==
    /\ fst.pc = "bucket_check"
    /\ calls' = Append(calls, S3Path(ReportsBucket,
                           << fin.instance_id, BucketCandidates[fst.i].prefix,
                              "report-1", "data", "timeline.json" >>))
    /\ \E answer \in KeyAnswers :
          fst' = IF answer = "present"
                 THEN BucketAt(AfterBreak(fst.i), fst.latest,
                               fst.discovered \cup {BucketCandidates[fst.i].name})
                 ELSE BucketAt(AfterContinue(fst.i), fst.latest, fst.discovered)
    /\ UNCHANGED <<fin, NotFetch>>

\* _discover_from_global_reports_prefixes: aws s3 ls s3://reports.../substantiate-e2e/
GlobalLs ==
    /\ fst.pc = "global_ls"
    /\ calls' = Append(calls, S3Path(ReportsBucket, <<"substantiate-e2e">>))
    /\ \E answer \in DirAnswers :
          fst' = IF answer = "dirs" THEN [fst EXCEPT !.pc = "global_check"]
                 ELSE AfterGlobal(fst.latest)
    /\ UNCHANGED <<fin, NotFetch>>

\* _discover_from_global_reports_prefixes: aws s3 ls <chosen>/data/timeline.json
GlobalCheck ==
    /\ fst.pc = "global_check"
    /\ calls' = Append(calls, S3Path(ReportsBucket,
                           <<"substantiate-e2e", "report-1", "data", "timeline.json">>))
    /\ \E answer \in KeyAnswers :
          fst' = IF answer = "present"
                 THEN AfterGlobal(fst.latest \cup {"substantiate-report"})
                 ELSE AfterGlobal(fst.latest)
    /\ UNCHANGED <<fin, NotFetch>>

NextFetch ==
    FetchReports \/ ListRoot \/ BucketLs \/ BucketCheck \/ GlobalLs \/ GlobalCheck

SpecFetch == InitFetch /\ [][NextFetch]_vars

(***************************************************************************)
(* Claims about the orchestration analyzer.                                *)
(***************************************************************************)

\* C1: in the phase list returned by orchestration.analyze, every consecutive
\* pair of phases satisfies phases[i].end <= phases[i+1].start, for any log
\* (the Helm phase followed by the Suspended phase included).
C1_PhasesDoNotOverlap ==
    opc = "done" =>
        \A i \in 1..(Len(orch.phases) - 1) :
            orch.phases[i].end <= orch.phases[i + 1].start

\* C2: every Phase of the result of orchestration.analyze has end >= start
\* (duration_s >= 0), whatever the order of the phase-marker lines in the log.
C2_PhaseEndsAfterStart ==
    opc = "done" =>
        \A i \in 1..Len(orch.phases) : duration_s(orch.phases[i]) >= 0

\* C3: every ResumeOverhead emitted by orchestration.analyze has
\* repo_export_s >= 0 and dep_resolution_s >= 0: an export duration longer than
\* the measured window is clamped, so that window total >= export >= 0.
C3_ResumeOverheadNotNegative ==
    opc = "done" =>
        \A i \in 1..Len(orch.resume_overheads) :
            LET r == orch.resume_overheads[i]
            IN  /\ r.repo_export_s >= 0
                /\ r.dep_resolution_s >= 0
                /\ total_s(r) >= r.repo_export_s

\* C5: for a log that is an initial start (ending in the first 'Process
\* status: RUNNING' line) followed by k suspend/resume cycles, analyze returns
\* resume_count = k (the first RUNNING line emits nothing) and
\* total_resume_overhead_s = the sum over the k cycles of (RUNNING timestamp
\* minus 'Storing policy' timestamp).
C5_ResumeCountIsCycles ==
    (opc = "done" /\ wphase = "running") =>
        /\ resume_count(orch) = wcycles
        /\ total_resume_overhead_s(orch) = wsum

\* C5 witness: a log of two cycles whose initial start wrote 'Storing policy'
\* and the export line before the first RUNNING line, analysed.
C5_Witness ==
    /\ opc = "done" /\ wphase = "running"
    /\ wcycles = 2 /\ resume_count(orch) = 2
    /\ wsum > 0
    /\ log[1].kind = "StoringPolicy" /\ log[2].kind = "ExportTook"

(***************************************************************************)
(* Claims about the test-timeline analyzer.                                *)
(***************************************************************************)
Thresholds == (0 - 1)..(MaxTime + 1)

\* C6: for any set of tests and any threshold_s, setup_phase_analysis splits the
\* tests into two disjoint groups with setup_tests + main_tests = total_tests;
\* a test is 'setup' exactly when its start < min(start) + threshold_s * 1000.
\* (Without tests the analysis is the empty dict and total_tests is 0.)
C6_SetupPlusMainIsTotal ==
    tpc = "done" =>
        \A th \in Thresholds :
            LET r == setup_phase_analysis(suite, th)
                early == { i \in 1..Len(suite.tests) :
                             suite.tests[i].start < MinStart(suite.tests) + th }
            IN  /\ r.empty <=> total_tests(suite) = 0
                /\ ~r.empty =>
                      /\ r.setup_tests = Cardinality(early)
                      /\ r.setup_tests + r.main_tests = total_tests(suite)

\* C6 witness: two tests that a threshold splits into one setup and one main test.
C6_Witness ==
    /\ tpc = "done" /\ total_tests(suite) = 2
    /\ \E th \in Thresholds :
          LET r == setup_phase_analysis(suite, th)
          IN  r.setup_tests = 1 /\ r.main_tests = 1

\* Two tests overlap when their [start, stop] intervals share more than a point.
Overlap(t, u) == t.start < u.stop /\ u.start < t.stop

SomeOverlap(tests) ==
    \E i, j \in 1..Len(tests) : i # j /\ Overlap(tests[i], tests[j])

\* Every instant of the span [min start, max stop] lies inside some test.
NoGap(tests) ==
    \A x \in MinStart(tests)..(MaxStop(tests) - 1) :
        \E i \in 1..Len(tests) : tests[i].start <= x /\ x < tests[i].stop

AtLeastOne(f) == f[1] >= f[2]
IsOne(f) == f[1] = f[2]
IsZero(f) == f[1] = 0

\* C7 as stated: PoolStats.parallelism is >= 1 whenever tests of the pool
\* overlap in time; for a pool with exactly one test it is 1.0 when the
\* wall-clock > 0 and 0 when the wall-clock is 0.
C7_AsStated ==
    tpc = "done" =>
        \A k \in 1..Len(suite.pools) :
            LET p == suite.pools[k]
            IN  /\ SomeOverlap(p.tests) => AtLeastOne(parallelism(p))
                /\ Len(p.tests) = 1 =>
                      IF wall_clock_s(p.tests) > 0 THEN IsOne(parallelism(p))
                      ELSE IsZero(parallelism(p))

\* C7 amended: PoolStats.parallelism is aggregate duration / wall-clock, and 0
\* when the wall-clock is 0.  It is >= 1 whenever every test of the pool has
\* stop >= start and duration >= stop - start and the tests' [start, stop]
\* intervals leave no gap in the pool's span.  For a pool with exactly one test
\* and wall-clock > 0 it is duration / (stop - start): 1.0 exactly when
\* duration = stop - start.
C7_Parallelism ==
    tpc = "done" =>
        \A k \in 1..Len(suite.pools) :
            LET p == suite.pools[k]
                wc == MaxStop(p.tests) - MinStart(p.tests)
                f == parallelism(p)
            IN  /\ wc = 0 => IsZero(f)
                /\ wc > 0 => f = <<SumDuration(p.tests), wc>>
                /\ ( /\ wc > 0 /\ NoGap(p.tests)
                      /\ \A i \in 1..Len(p.tests) :
                            /\ p.tests[i].stop >= p.tests[i].start
                            /\ p.tests[i].duration >= p.tests[i].stop - p.tests[i].start )
                   => AtLeastOne(f)
                /\ (Len(p.tests) = 1 /\ wc > 0) =>
                      (IsOne(f) <=> p.tests[1].duration = p.tests[1].stop - p.tests[1].start)

\* C7 witness: a pool of two tests that run at the same time, each with
\* duration = stop - start, whose parallelism is 2.
C7_Witness ==
    /\ tpc = "done"
    /\ \E k \in 1..Len(suite.pools) :
          LET p == suite.pools[k]
          IN  /\ Len(p.tests) = 2 /\ SomeOverlap(p.tests) /\ NoGap(p.tests)
              /\ \A i \in 1..2 : p.tests[i].duration = p.tests[i].stop - p.tests[i].start
              /\ parallelism(p) = <<2, 1>>

\* The rank-4 findings of correlate called on the suite as its Kono argument.
Rank4(s) ==
    LET r == correlate([NoInputs EXCEPT !.kono = s])
    IN  SelectSeq(r.findings, LAMBDA f : f.rank = 4)

\* C8: for a suite with exactly two pools where the later-starting pool starts
\* strictly after the earlier pool stops, sequential_pool_waste_s is the later
\* pool's wall_clock_s, and the waste of correlate's rank-4 finding for that
\* suite is the same value.
C8_SequentialWasteIsLaterPool ==
    (tpc = "done" /\ Len(suite.pools) = 2) =>
        \A i, j \in 1..2 :
            ( /\ start_ms(suite.pools[j]) > start_ms(suite.pools[i])
              /\ start_ms(suite.pools[j]) > stop_ms(suite.pools[i]) )
            => /\ sequential_pool_waste_s(suite) = wall_clock_s(suite.pools[j].tests)
               /\ Len(Rank4(suite)) = 1
               /\ Rank4(suite)[1].amount = sequential_pool_waste_s(suite)

\* C8 witness: Pool-1 runs over [0, 0], Pool-2 over [1, 2]: the waste is 1.
C8_Witness ==
    /\ tpc = "done" /\ Len(suite.pools) = 2
    /\ stop_ms(suite.pools[1]) < start_ms(suite.pools[2])
    /\ wall_clock_s(suite.pools[1].tests) = 0
    /\ wall_clock_s(suite.pools[2].tests) = 1
    /\ sequential_pool_waste_s(suite) = 1
    /\ Len(Rank4(suite)) = 1

(***************************************************************************)
(* Claims about correlate.                                                 *)
(***************************************************************************)
HasRank(res, n) == \E i \in 1..Len(res.findings) : res.findings[i].rank = n

\* C4: correlate emits the rank-7 'Application Has Massive Resource Headroom'
\* finding if and only if the CPU summary and the pending-connections summary
\* both exist and CPU average < 1.0 and pending-connections max = 0, that is
\* exactly when MetricsResult.has_headroom is true.
C4_HeadroomFindingIffHeadroom ==
    cpc = "done" => (HasRank(corr, 7) <=> has_headroom(cin.metrics_result))

\* C9: in the list returned by correlate the findings are in non-decreasing
\* rank order, for every combination of inputs, any content and order of
\* AppLogsResult.warnings included.
C9_FindingsInRankOrder ==
    cpc = "done" =>
        \A i \in 1..(Len(corr.findings) - 1) :
            corr.findings[i].rank <= corr.findings[i + 1].rank

(***************************************************************************)
(* Claims about the webapp-log analyzer.                                   *)
(***************************************************************************)
\* The lines of the envelope that match the pattern of a warning category.
Matching(cat) ==
    { i \in 1..Len(envelope.entries) :
        LET line == envelope.entries[i]
        IN  line.warn /\ CASE cat = "EffectConsumer queue blocking" -> line.effect
                           [] cat = "Hibernate dialect mismatch" -> line.dialect
                           [] OTHER -> line.missing }

\* A category's count: the matching lines of a success envelope; the scan does
\* not run on any other envelope, and counts nothing.
CategoryCount(cat) ==
    IF envelope.status = "success" THEN Cardinality(Matching(cat)) ELSE 0

WarningsOf(cat) == SelectSeq(applogs.warnings, LAMBDA w : w.category = cat)

\* C10: analyze_webapp_logs emits exactly one LogWarning per warning category
\* whose count is > 0 and none for a category whose count is 0; the count of
\* the 'EffectConsumer queue blocking' warning is the number of log lines that
\* match the queue-blocking WARN pattern.
C10_OneWarningPerCategory ==
    lpc = "done" =>
        /\ \A cat \in WarningCategories :
              Len(WarningsOf(cat)) = IF CategoryCount(cat) > 0 THEN 1 ELSE 0
        /\ \A i \in 1..Len(applogs.warnings) :
              /\ applogs.warnings[i].category \in WarningCategories
              /\ applogs.warnings[i].category = "EffectConsumer queue blocking" =>
                    applogs.warnings[i].count
                        = Cardinality(Matching("EffectConsumer queue blocking"))

\* C10 witness: three queue-blocking WARN lines and an INFO line that mentions
\* EffectConsumer give one warning, with count 3.
C10_Witness ==
    /\ lpc = "done"
    /\ Len(envelope.entries) = 4
    /\ \E i \in 1..4 : envelope.entries[i].effect /\ ~envelope.entries[i].warn
    /\ Len(applogs.warnings) = 1
    /\ applogs.warnings[1].category = "EffectConsumer queue blocking"
    /\ applogs.warnings[1].count = 3

\* C11: correlate completes without raising for every MetricsResult in which
\* any subset of the optional metric summaries is absent, the memory summary
\* absent beside existing CPU and pending-connections summaries included.
C11_CorrelateNeverRaises ==
    cpc = "done" => ~corr.raised

(***************************************************************************)
(* Claims about the metrics analyzer.                                      *)
(***************************************************************************)
\* The selected series of the file has no numeric non-NaN sample.
NoNumericSample(file) ==
    /\ HasResult(file) /\ file.status = "success" /\ file.result # <<>>
    /\ LET values == Target(file.result).values
       IN  \A i \in 1..Len(values) : ~IsNum(values[i])

\* The files C12 names: absent, empty, not parseable as JSON, non-success
\* status, no result entries, no numeric non-NaN sample in the selected series.
NoSummaryFile(file) ==
    \/ file.kind \in {"absent", "empty", "garbage", "binary"}
    \/ file.kind = "json" /\ file.top = "object" /\ file.status # "success"
    \/ file.kind = "json" /\ file.top = "object" /\ file.status = "success"
       /\ (file.data = "missing" \/ (file.data = "object" /\ file.result = <<>>))
    \/ NoNumericSample(file)

\* C12: _summarize returns no summary, without raising, for a metric file that
\* is absent, empty, not parseable as JSON, has a non-success status, has no
\* result entries, or whose selected series has no numeric non-NaN sample; and
\* metrics.analyze does not fail on a directory with such a file.
C12_NoSummaryWithoutRaising ==
    (mpc = "done" /\ NoSummaryFile(mfile)) =>
        /\ summarize(mfile) = Returned(NoSummary)
        /\ ~mres.raised
        /\ mres.result = MetricsResult

(***************************************************************************)
(* Claims about empty inputs.                                              *)
(***************************************************************************)
\* C13: for a timeline with zero tests every derived metric of TestSuiteResult
\* and PoolStats is zero or empty (total/pass/fail/skip counts, wall_clock_s,
\* aggregate_s and sequential_pool_waste_s are 0, setup_phase_analysis and
\* polling_analysis are empty), and no metric divides by zero: parallelism is 0
\* for a pool whose wall-clock is 0 and a worker's idle_pct is 0 when its wall
\* span is 0.
C13_ZeroTestsZeroMetrics ==
    tpc = "done" =>
        /\ timeline = <<>> =>
              /\ total_tests(suite) = 0 /\ pass_count(suite) = 0
              /\ fail_count(suite) = 0 /\ skip_count(suite) = 0
              /\ wall_clock_s(suite.tests) = 0 /\ aggregate_s(suite.tests) = 0
              /\ sequential_pool_waste_s(suite) = 0
              /\ \A th \in Thresholds : setup_phase_analysis(suite, th).empty
              /\ polling_analysis(suite).empty
              /\ failed_tests(suite) = <<>> /\ suite.pools = <<>>
        /\ LET p == [name |-> "default", tests |-> <<>>]
           IN  /\ pool_count(p) = 0 /\ wall_clock_s(p.tests) = 0 /\ aggregate_s(p.tests) = 0
               /\ IsZero(parallelism(p)) /\ parallelism(p)[2] # 0
               /\ start_ms(p) = 0 /\ stop_ms(p) = 0
               /\ DOMAIN worker_stats(p) = {}
        /\ \A k \in 1..Len(suite.pools) :
              LET p == suite.pools[k]
              IN  /\ parallelism(p)[2] # 0
                  /\ wall_clock_s(p.tests) = 0 => IsZero(parallelism(p))
                  /\ \A w \in DOMAIN worker_stats(p) :
                        LET ws == worker_stats(p)[w]
                        IN  /\ ws.idle_pct[2] # 0
                            /\ ws.wall_ms = 0 => IsZero(ws.idle_pct)

\* C13 witness: a timeline without tests, analysed.
C13_Witness ==
    /\ tpc = "done" /\ timeline = <<>>
    /\ total_tests(suite) = 0 /\ suite.pools = <<>>
    /\ polling_analysis(suite).empty

\* C14: when no line of the log matches the timestamp format, analyze returns a
\* result with no phases, children, suspend times or resume overheads and unset
\* start and end, and every derived value (total, active and suspended
\* duration, idle_pct, total_resume_overhead_s, resume_count) is 0.
C14_NoTimestampLinesEmptyResult ==
    (opc = "done" /\ \A i \in 1..Len(log) : log[i].kind = "NoTimestamp") =>
        /\ orch.phases = <<>> /\ orch.children = <<>>
        /\ orch.suspend_times = <<>> /\ orch.resume_overheads = <<>>
        /\ orch.total_start = None /\ orch.total_end = None
        /\ total_duration_s(orch) = 0 /\ active_duration_s(orch) = 0
        /\ suspended_duration_s(orch) = 0 /\ IsZero(result_idle_pct(orch))
        /\ result_idle_pct(orch)[2] # 0
        /\ total_resume_overhead_s(orch) = 0 /\ resume_count(orch) = 0

\* C14 witness: a log of two lines without a timestamp, analysed.
C14_Witness ==
    /\ opc = "done" /\ Len(log) = 2
    /\ \A i \in 1..2 : log[i].kind = "NoTimestamp"
    /\ orch = OrchestrationResult

\* Webapp envelopes whose status is not 'success', with up to two lines.
FailedWebEnvelopes ==
    [ status : EnvelopeStatuses \ {"success"},
      entries : {<<>>} \cup {<<a>> : a \in WebLines}
                \cup {<<a, b>> : a \in WebLines, b \in WebLines} ]

\* C15: when the envelope's status is not 'success', analyze_webapp_logs
\* returns an AppLogsResult with no warnings and all counts 0, and
\* analyze_dispatcher_logs returns a DispatcherTimeline with empty job_id, all
\* timestamps 0 and both durations 0, whatever else the envelope contains.
C15_NonSuccessEnvelopeEmptyResult ==
    (dpc = "done" /\ denvelope.status # "success") =>
        /\ dtimeline.job_id = "" /\ dtimeline.pod_name = ""
        /\ dtimeline.first_log_ns = 0 /\ dtimeline.last_log_ns = 0
        /\ dtimeline.compute_start_ns = 0 /\ dtimeline.compute_end_ns = 0
        /\ dispatcher_total_duration_s(dtimeline) = 0
        /\ compute_duration_s(dtimeline) = 0
        /\ \A data \in FailedWebEnvelopes :
              LET r == analyze_webapp_logs(data)
              IN  /\ r.warnings = <<>> /\ r.error_count = 0
                  /\ r.validation_error_count = 0 /\ r.total_log_entries = 0

\* C15 witness: an envelope with status 'error' that holds a stdout stream with
\* a 'Running job' line and a pod, analysed.
C15_Witness ==
    /\ dpc = "done" /\ denvelope.status = "error"
    /\ \E i \in 1..Len(denvelope.result) :
          /\ denvelope.result[i].pod # ""
          /\ denvelope.result[i].values # <<>>
          /\ denvelope.result[i].values[1].line = "RunningJob"
    /\ dtimeline = DispatcherTimeline

IsStartedLine(l) == l.kind = "StartedChild"

\* C17: children holds the instance id of every 'Started a process' line, in
\* the order of the timestamp-sorted lines (file order among equal timestamps),
\* duplicates included: its length is the number of such lines.
C17_ChildrenInSortedOrderWithDuplicates ==
    opc = "done" =>
        LET started == SortByTs(SelectSeq(log, IsStartedLine))
        IN  /\ Len(orch.children) = Len(SelectSeq(log, IsStartedLine))
            /\ \A i \in 1..Len(started) : orch.children[i] = started[i].arg

\* C17 witness: three 'Started a process' lines, the first of the file with the
\* latest timestamp and the other two naming the same child.
C17_Witness ==
    /\ opc = "done"
    /\ Len(log) = 3 /\ log[1].ts > log[2].ts /\ log[1].arg = 1
    /\ orch.children = <<2, 2, 1>>

(***************************************************************************)
(* Claims about the suspend/resume loop.  Sorted is the list the loop      *)
(* walks and After(k) the loop's variables after its k-th line.            *)
(***************************************************************************)
Sorted == SortByTs(SelectSeq(log, Matches))

After(k) == ResumeLoop(SubSeq(Sorted, 1, k))

Has(k, marker) == marker \in Text(Sorted[k].kind)

IsSuspendedLine(l) == l.kind = "Suspended"

\* C19: a SUSPENDED line closes an open resume window and emits no
\* ResumeOverhead; a RUNNING line after it emits nothing unless a 'Storing
\* policy' line came in between; every SUSPENDED line, before or after the
\* first RUNNING, is appended to suspend_times.
C19_SuspendedClosesWindow ==
    opc = "done" =>
        /\ \A k \in 1..Len(Sorted) :
              Has(k, "Process status: SUSPENDED") =>
                  /\ ~After(k).in_resume
                  /\ After(k).resume_overheads = After(k - 1).resume_overheads
                  /\ After(k).suspend_times =
                         Append(After(k - 1).suspend_times, Sorted[k].ts)
        /\ \A i \in 1..Len(Sorted), k \in 1..Len(Sorted) :
              /\ i < k
              /\ Has(i, "Process status: SUSPENDED")
              /\ Has(k, "Process status: RUNNING")
              /\ \A m \in (i + 1)..(k - 1) : ~Has(m, "Storing policy")
              => After(k).resume_overheads = After(k - 1).resume_overheads
        /\ LET suspended == SelectSeq(Sorted, IsSuspendedLine)
           IN  orch.suspend_times = [i \in 1..Len(suspended) |-> suspended[i].ts]
        /\ orch.resume_overheads = After(Len(Sorted)).resume_overheads

\* C19 witness: first RUNNING, 'Storing policy' opens a window, SUSPENDED closes
\* it, the next RUNNING emits nothing; a SUSPENDED line before the first RUNNING
\* was recorded too.
C19_Witness ==
    /\ opc = "done"
    /\ Len(Sorted) = 5
    /\ Has(1, "Process status: SUSPENDED")
    /\ Has(2, "Process status: RUNNING")
    /\ Has(3, "Storing policy") /\ After(3).in_resume
    /\ Has(4, "Process status: SUSPENDED")
    /\ Has(5, "Process status: RUNNING")
    /\ Len(orch.suspend_times) = 2
    /\ orch.resume_overheads = <<>>

\* C20: a 'Storing policy' line before the first RUNNING line opens no resume
\* window: up to and including the first RUNNING line no window is open and no
\* ResumeOverhead exists, and every ResumeOverhead starts at a 'Storing policy'
\* line that comes after the first RUNNING line.
C20_StartupOpensNoWindow ==
    opc = "done" =>
        /\ \A k \in 1..Len(Sorted) :
              (\A j \in 1..(k - 1) : ~Has(j, "Process status: RUNNING")) =>
                  /\ ~After(k).in_resume
                  /\ After(k).resume_overheads = <<>>
        /\ \A n \in 1..Len(orch.resume_overheads) :
              \E j \in 1..Len(Sorted), i \in 1..Len(Sorted) :
                  /\ j < i
                  /\ Has(j, "Process status: RUNNING")
                  /\ Has(i, "Storing policy")
                  /\ orch.resume_overheads[n].resume_time = Sorted[i].ts

\* C20 witness: the start-up 'Storing policy' and the first RUNNING, then a
\* resume ('Storing policy' at a later time, RUNNING) that is measured: the one
\* ResumeOverhead starts at the later 'Storing policy'.
C20_Witness ==
    /\ opc = "done"
    /\ Len(Sorted) >= 4
    /\ Has(1, "Storing policy") /\ Sorted[1].ts = 0
    /\ Has(2, "Process status: RUNNING")
    /\ Has(3, "Storing policy") /\ Sorted[3].ts = 1
    /\ Has(4, "Process status: RUNNING")
    /\ Len(orch.resume_overheads) = 1
    /\ orch.resume_overheads[1].resume_time = 1

(***************************************************************************)
(* Claims about the report fetcher.                                        *)
(***************************************************************************)
\* The location lies under s3://<bucket>/<prefix>/.
UnderPrefix(t, bucket, prefix) ==
    /\ t.bucket = bucket
    /\ Len(t.path) >= Len(prefix)
    /\ SubSeq(t.path, 1, Len(prefix)) = prefix

\* C18: when fetch_reports is called with a prefix and a process_date, every
\* 'aws s3 ls' it issues targets a path under the bucket's prefix and never the
\* bucket root, whatever the listings answer.
C18_ListingsStayUnderPrefix ==
    (fin.prefix # <<>> /\ fin.process_date # "") =>
        \A n \in 1..Len(calls) :
            /\ UnderPrefix(calls[n], fin.bucket, fin.prefix)
            /\ calls[n] # S3Path(fin.bucket, <<>>)

\* C21: every ResumeOverhead belongs to a suspend->resume cycle: the RUNNING
\* line that emits it is preceded by a SUSPENDED line with no RUNNING line in
\* between, so resume_count never exceeds the number of suspend_times.
C21_OverheadFollowsSuspend ==
    opc = "done" =>
        /\ resume_count(orch) <= Len(orch.suspend_times)
        /\ \A k \in 1..Len(Sorted) :
              Len(After(k).resume_overheads) > Len(After(k - 1).resume_overheads) =>
                  \E s \in 1..(k - 1) :
                      /\ Has(s, "Process status: SUSPENDED")
                      /\ \A m \in (s + 1)..(k - 1) : ~Has(m, "Process status: RUNNING")

\* Line k emits a ResumeOverhead.
Emits(k) == Len(After(k).resume_overheads) > Len(After(k - 1).resume_overheads)

\* The line that opened the window which is open before line k: the last
\* 'Storing policy' line before k that found no window open.
Opener(k) ==
    LET opens == {j \in 1..(k - 1) : After(j).in_resume /\ ~After(j - 1).in_resume}
    IN  CHOOSE j \in opens : \A i \in opens : i <= j

\* The export lines strictly between the opener of line k's window and line k.
ExportsInWindow(k) ==
    {m \in (Opener(k) + 1)..(k - 1) : Has(m, "Repository data export took")}

Boundaries ==
    LET mica == FirstTs(Sorted, {i \in 1..Len(Sorted) : IsMica(Sorted[i])})
    IN  [ init_start |-> FirstTs(Sorted, {i \in 1..Len(Sorted) : IsStoringPolicy(Sorted[i])}),
          bootstrap_start |-> FirstTs(Sorted, {i \in 1..Len(Sorted) : IsExporting(Sorted[i])}),
          aws_start |-> FirstTs(Sorted, {i \in 1..Len(Sorted) : IsAssumingRole(Sorted[i])}),
          mica_start |-> mica,
          helm_start |-> HelmStart(Sorted, mica),
          helm_end |-> HelmEnd(Sorted),
          first_suspend |-> FirstTs(Sorted, {i \in 1..Len(Sorted) : IsSuspended(Sorted[i])}) ]

\* The result holds the phase (name, start, end) exactly when both boundaries
\* were found.
PhaseIff(name, start, end) ==
    (\E i \in 1..Len(orch.phases) : orch.phases[i] = Phase(name, start, end))
        <=> (start # None /\ end # None)

\* C23: a phase is built exactly when both of its boundary timestamps were
\* found (Init, Bootstrap, AWS, Config/Mica, Helm), and 'Suspended' whenever a
\* first-suspend timestamp exists; a missing marker removes only the phases
\* that use it.
C23_PhaseIffBothBoundaries ==
    (opc = "done" /\ Sorted # <<>>) =>
        LET b == Boundaries
        IN  /\ PhaseIff("Init", b.init_start, b.bootstrap_start)
            /\ PhaseIff("Bootstrap", b.bootstrap_start, b.aws_start)
            /\ PhaseIff("AWS", b.aws_start, b.mica_start)
            /\ PhaseIff("Config/Mica", b.mica_start, b.helm_start)
            /\ PhaseIff("Helm", b.helm_start, b.helm_end)
            /\ PhaseIff("Suspended", b.first_suspend, orch.total_end)

\* The timestamp of the first line, in timestamp order, among the hit lines.
FirstOccurrence(hits) == Sorted[CHOOSE i \in hits : \A j \in hits : i <= j].ts

\* C24: each phase-boundary timestamp analyze uses (Init start, Bootstrap start,
\* AWS role, Mica connect, Helm completion, first suspend) is the timestamp of
\* the first line in timestamp order that contains its marker.
C24_BoundaryIsFirstOccurrence ==
    (opc = "done" /\ Sorted # <<>>) =>
        /\ LET hits == {i \in 1..Len(Sorted) : IsHelmEnd(Sorted[i])}
           IN  hits # {} => HelmEnd(Sorted) = FirstOccurrence(hits)
        /\ \A n \in 1..Len(orch.phases) :
              LET p == orch.phases[n]
                  first(name) ==
                      FirstOccurrence({i \in 1..Len(Sorted) : name \in Text(Sorted[i].kind)})
              IN  /\ p.name = "Init" =>
                        /\ p.start = first("Storing policy")
                        /\ p.end = first("Exporting the repository data")
                  /\ p.name = "Bootstrap" =>
                        /\ p.start = first("Exporting the repository data")
                        /\ p.end = first("Assuming role")
                  /\ p.name = "AWS" =>
                        /\ p.start = first("Assuming role")
                        /\ p.end = FirstOccurrence({i \in 1..Len(Sorted) : IsMica(Sorted[i])})
                  /\ p.name = "Config/Mica" =>
                        p.start = FirstOccurrence({i \in 1..Len(Sorted) : IsMica(Sorted[i])})
                  /\ p.name = "Helm" =>
                        p.end = FirstOccurrence({i \in 1..Len(Sorted) : IsHelmEnd(Sorted[i])})
                  /\ p.name = "Suspended" => p.start = first("Process status: SUSPENDED")

\* The timestamped lines of the file differ pairwise in their timestamps.
DistinctTimestamps ==
    \A i \in 1..Len(log), j \in 1..Len(log) :
        (i # j /\ log[i].kind # "NoTimestamp" /\ log[j].kind # "NoTimestamp")
            => log[i].ts # log[j].ts

\* C25: for a log whose matched lines have pairwise distinct timestamps, the
\* result of analyze on any reordering of the lines (phases, children,
\* suspend_times, resume_overheads, start and end) equals the result on the log.
C25_OrderOfLinesIrrelevant ==
    (opc = "done" /\ DistinctTimestamps) => orch2 = orch

\* C25 witness: three timestamped lines written latest first, with a child, a
\* suspend time and a phase in the result of the file and of its reordering.
C25_Witness ==
    /\ opc = "done" /\ DistinctTimestamps
    /\ Len(log) = 3 /\ log[1].ts = 2 /\ log[2].ts = 1 /\ log[3].ts = 0
    /\ orch.children # <<>> /\ orch.suspend_times # <<>> /\ orch.phases # <<>>
    /\ orch2 = orch
    /\ orch.total_start = 0 /\ orch.total_end = 2

\* Every finding type named by C26 is present exactly when its own gate holds.
GatesDecide ==
    /\ HasRank(corr, 1) <=> cin.orchestration.resume_overheads # <<>>
    /\ HasRank(corr, 2) <=>
           (Len(cin.orchestration.children) > 1 /\ resume_count(cin.orchestration) > 1)
    /\ HasRank(corr, 3) <=> cin.dispatcher.job_id # ""
    /\ HasRank(corr, 5) <=> total_tests(cin.substantiate) > 0
    /\ HasRank(corr, 6) <=>
           /\ total_tests(cin.substantiate) > 0
           /\ PollingPctOver50(polling_analysis(cin.substantiate))
    /\ HasRank(corr, 10) <=> failed_tests(cin.substantiate) # <<>>

\* C26: in correlate's output each of the findings of rank 1, 2, 3, 5, 6 and
\* 10 is present exactly when its own gating input holds, whatever the other
\* inputs are.
C26_FindingDependsOnOwnGate == cpc = "done" => GatesDecide

(***************************************************************************)
(* Claims about the dispatcher timeline.                                   *)
(***************************************************************************)
\* The entries of all streams of the envelope, by timestamp.
DispEntries == SortByTs(AllEntries(denvelope.result))

\* The timestamp of the first (latest = FALSE) or last of the hit entries, 0
\* when there is none.
HitTs(hits, latest) ==
    IF hits = {} THEN 0
    ELSE DispEntries[CHOOSE i \in hits :
                        \A j \in hits : IF latest THEN j <= i ELSE i <= j].ts

\* C27: compute_end_ns is the timestamp of the latest stdout entry with
\* 'Finished' and 'S3', else of the last stdout entry, else 0; compute_start_ns
\* is the timestamp of the first 'Running job <id>' match; first_log_ns and
\* last_log_ns are the least and greatest timestamps; every compute bound that
\* is set lies between them.
C27_DispatcherBounds ==
    (dpc = "done" /\ denvelope.status = "success" /\ DispEntries # <<>>) =>
        LET n == Len(DispEntries)
            finished == {i \in 1..n : /\ DispEntries[i].stype = "stdout"
                                      /\ DispEntries[i].line = "FinishedS3"}
            stdout == {i \in 1..n : DispEntries[i].stype = "stdout"}
            running == {i \in 1..n : DispEntries[i].line = "RunningJob"}
        IN  /\ dtimeline.compute_end_ns =
                   IF finished # {} THEN HitTs(finished, TRUE) ELSE HitTs(stdout, TRUE)
            /\ dtimeline.compute_start_ns = HitTs(running, FALSE)
            /\ \A i \in 1..n : /\ dtimeline.first_log_ns <= DispEntries[i].ts
                               /\ DispEntries[i].ts <= dtimeline.last_log_ns
            /\ \E i \in 1..n : dtimeline.first_log_ns = DispEntries[i].ts
            /\ \E i \in 1..n : dtimeline.last_log_ns = DispEntries[i].ts
            /\ \A b \in {dtimeline.compute_start_ns, dtimeline.compute_end_ns} :
                   b # 0 => (dtimeline.first_log_ns <= b /\ b <= dtimeline.last_log_ns)

(***************************************************************************)
(* Claims about the worst case of the queue-blocking warning.              *)
(***************************************************************************)
\* float(text.rstrip("s")), in hundredths of a second
SecsValue(text) ==
    (CHOOSE line \in WebLines : line.secs.text = text).secs.value

\* The queue-blocking lines that embed a duration.
TimedBlocking ==
    {i \in 1..Len(envelope.entries) :
        /\ envelope.entries[i].warn /\ envelope.entries[i].effect
        /\ envelope.entries[i].secs.text # ""}

RECURSIVE SumOfCounts(_)
SumOfCounts(pools) ==
    IF pools = <<>> THEN 0 ELSE pool_count(Head(pools)) + SumOfCounts(Tail(pools))

\* C29: analyze_timeline partitions the tests by pool key: a test's pool is
\* 'Pool-<index>' when its worker name embeds 'ForkJoinPool-<index>-' and
\* 'default' otherwise; the pool keyed k holds exactly the tests whose pool is
\* k, each test once; the counts of the pools add up to total_tests.
C29_PoolsPartitionTests ==
    tpc = "done" =>
        /\ Len(suite.tests) = Len(timeline)
        /\ \A i \in 1..Len(suite.tests) :
              LET t == suite.tests[i]
              IN  /\ t.worker = timeline[i].worker
                  /\ t.worker = "3423@host.ForkJoinPool-1-worker-7" => t.pool = "Pool-1"
                  /\ t.worker = "3423@host.ForkJoinPool-2-worker-3" => t.pool = "Pool-2"
                  /\ t.worker = "pid-20-worker-8" => t.pool = "default"
                  /\ \E k \in 1..Len(suite.pools) : suite.pools[k].name = t.pool
        /\ \A k \in 1..Len(suite.pools), j \in 1..Len(suite.pools) :
              suite.pools[k].name = suite.pools[j].name => k = j
        /\ \A k \in 1..Len(suite.pools) :
              /\ suite.pools[k].tests # <<>>
              /\ suite.pools[k].tests =
                     SelectSeq(suite.tests, LAMBDA t : t.pool = suite.pools[k].name)
        /\ SumOfCounts(suite.pools) = total_tests(suite)

\* C29 witness: a suite of two tests, the first of fork-join pool 2 and the
\* second of the single default pool, each in its own PoolStats.
C29_Witness ==
    /\ tpc = "done"
    /\ Len(suite.tests) = 2
    /\ Len(suite.pools) = 2
    /\ suite.pools[1].name = "Pool-2" /\ pool_count(suite.pools[1]) = 1
    /\ suite.pools[2].name = "default" /\ pool_count(suite.pools[2]) = 1

\* Two pools overlap when their [start_ms, stop_ms] intervals share more than
\* a point.
PoolsOverlap(p, q) == start_ms(p) < stop_ms(q) /\ start_ms(q) < stop_ms(p)

\* C30: sequential_pool_waste_s counts a pool's wall-clock only when the pool
\* starts after the previous pool (by start time) has stopped; a suite whose
\* pools all overlap has sequential_pool_waste_s = 0.
C30_OverlappingPoolsWasteNothing ==
    tpc = "done" =>
        ( (\A i, j \in 1..Len(suite.pools) :
              i # j => PoolsOverlap(suite.pools[i], suite.pools[j]))
          => sequential_pool_waste_s(suite) = 0 )

====
